---- MODULE Spec2Model ----
(***************************************************************************)
(* Commute Briefing: the quota ledger and the source orchestrator of       *)
(* custom_components/commute_briefing/coordinator.py, as a state machine.  *)
(*                                                                         *)
(* One CommuteBriefingCoordinator instance is shared by the callers that   *)
(* the integration registers: the periodic refresh of the update           *)
(* coordinator ("timer"), the refresh button / refresh_commute service     *)
(* ("manual") and the reset_counters service / button ("reset").  Every    *)
(* caller is a coroutine on one event loop: code between two awaits of a   *)
(* network or service call runs atomically, and every such await is a      *)
(* point where the other callers may run.  One action of the model is one  *)
(* such atomic stretch of code.                                            *)
(*                                                                         *)
(* self._bus_data and self._data_source are written with every snapshot    *)
(* and read by nothing; the snapshot is followed where it is read, in the  *)
(* locals of the fetch and in self.data.  A primary stop code is           *)
(* configured (the config flow requires one), so the early return of       *)
(* _async_update_data for a missing stop code is never taken.              *)
(***************************************************************************)
EXTENDS Integers, Sequences, FiniteSets, TLC

VARIABLES
    config,            \* entry.data: the configuration mapping (never written)
    today,             \* dt_util.now().date(), as a day number
    calls_today,       \* self._calls_today
    auto_calls_today,  \* self._auto_calls_today
    last_reset_date,   \* self._last_reset_date (its date), NoDate for None
    data,              \* self.data: the snapshot the last finished refresh returned
    pc,                \* per caller: the await it is suspended at
    source,            \* per caller: local `source` of the fetch it is inside
    departures,        \* per caller: local `departures` of the fetch it is inside
    manual_source,     \* per caller: local `source` of async_manual_refresh (l.336-353)
    manual_departures, \* per caller: local `departures` of async_manual_refresh
    auto_requests,     \* history: primary requests sent by _async_update_data on
                       \* date `today` (counted under SpecRequests only)
    others_today,      \* history: a caller other than the timer has run on date
                       \* `today` (recorded under SpecDays only)
    normalizer,        \* the last call of a departure normalizer made on its own:
                       \* its input, its clock and its result (SpecNormalize),
                       \* of the scraper's reading of the board rows (SpecRows),
                       \* or of the snapshot's traffic delay or commute day
                       \* (SpecSnapshot)
    observed,          \* history (recorded under SpecAnswers only):
                       \*   answer   the answer the last step received to its request
                       \*   skipped  the callers whose running _async_update_data
                       \*            made no primary request
                       \*   press    what the manual refresh under way has done
                       \*            (recorded under SpecManual only)
    app                \* the scraper microservice (scraper-microservice/app.py):
                       \* its cache, its browser manager, its open pages and its
                       \* requests in flight (SpecService only); to the
                       \* coordinator the service is the answers it gives

vars == <<config, today, calls_today, auto_calls_today, last_reset_date, data, pc,
          source, departures, manual_source, manual_departures, auto_requests,
          others_today, normalizer, observed, app>>

-----------------------------------------------------------------------------
(* Bounds of the model *)

MaxDay == 1          \* dates 0..MaxDay
MaxQuota == 2        \* daily_quota ranges over 1..MaxQuota
MaxReserved == 1     \* reserved_for_manual ranges over 0..MaxReserved
MaxLen == 2          \* a normalizer called on its own gets up to MaxLen departures
MaxAuto == 1         \* max_auto_calls ranges over 1..MaxAuto
MaxClock == 3        \* the scraper service's clock runs over 0..MaxClock
MaxLaunches == 2     \* browser sessions the scraper service launches at most
CACHE_TTL_SECONDS == 2   \* the time to live of a cache entry, in steps of the clock
MaxRows == 12        \* a long departure board has up to MaxRows rows

-----------------------------------------------------------------------------
(* Constants of the program *)

SOURCE_TRANSPORTAPI == "TransportAPI"
SOURCE_SCRAPER == "Lothian Scrape"
SOURCE_NONE == "None"

NoDate == -1         \* self._last_reset_date is None
Absent == -1         \* a due_mins of None
SortSentinel == 999  \* `x.get("due_mins") or 999`
ValueError == -1     \* strptime raises ValueError
MinutesPerHour == 60
SecondsPerMinute == 60
SecondsPerDay == 86400   \* timedelta(days=1)
HoursPerDay == 24        \* datetime.replace takes an hour below 24
RowLimit == 10           \* departure_elements[:10]

Min(a, b) == IF a < b THEN a ELSE b

Procs == {"timer", "manual", "reset"}

Dep(r, d) == [route |-> r, due_mins |-> d]

\* Bodies a 200 answer of the primary API can carry, already flattened to
\* (route, minutes until departure) pairs, in the order of the response.
PrimaryBodies == { <<>>, <<Dep("12", 7)>>, <<Dep("X4", 3)>> }

\* "departures" lists a 200 answer of the scraper service can carry.
\* The scraper lists them in the order of the page, a bus that is "Due" (0
\* minutes) first.
ScraperBodies == { <<>>, <<Dep("12", 0), Dep("12", 9)>>, <<Dep("X4", 7)>> }

\* How a request to the primary API can end (l.135-148).
\*   "ok"           status 200, body read
\*   "non200"       any other status
\*   "client_error" aiohttp.ClientError (connection failure)
\*   "timeout"      the total timeout of session.get: asyncio.TimeoutError,
\*                  which is no aiohttp.ClientError
HttpOutcomes == {"ok", "non200", "client_error", "timeout"}

\* Texts of the route allow-list option.
BusRouteTexts == { "12", "", " 12 , ,X4", "X4," }

\* Texts of the departure times of a primary answer.
TimeTexts == { "", "08:05", "8:05", "08:10", "00:05", "23:55", "soon" }

\* Texts of the time cell of a row of the departure board the scraper reads.
BoardTimeTexts == { "Due", "5 min", "08:10", "08:05", "25:00", "Cancelled", " " }

\* Texts of the route cell of a row of the departure board.
BoardRouteTexts == { "12", " " }

\* Stop codes as a request to the scraper service carries them.
StopTexts == { "a", "A ", "b", "" }

\* Texts of the office and work-from-home keyword options (the first of each
\* is the default of const.py) and of the message of a calendar event.
OfficeKeywordTexts == { "Office,Edinburgh", " office , ", "" }

WfhKeywordTexts == { "WFH,Home,Remote", "wfh", "" }

EventTexts ==
    { "Office day", "WFH - Office catchup", "Holiday", "Edinburgh trip", "Working from home", "" }

\* Texts of the state of the travel-time sensor.
WazeTexts == { "58", "30", "0", "-5", " 58 ", "abc", "unknown", "unavailable", "" }

\* Texts of the notify service option: none, a name without a dot, a name
\* without a service after the dot, and "<domain>.<service>".
NotifyTexts == { "", "notify", "notify.", "notify.mobile" }

\* The characters of a text.
Characters ==
    [ text \in BusRouteTexts \cup TimeTexts \cup BoardTimeTexts \cup BoardRouteTexts
                \cup StopTexts \cup OfficeKeywordTexts \cup WfhKeywordTexts
                \cup EventTexts \cup WazeTexts \cup NotifyTexts |->
        CASE text = "12" -> <<"1", "2">>
          [] text = "Due" -> <<"D", "u", "e">>
          [] text = "5 min" -> <<"5", " ", "m", "i", "n">>
          [] text = "25:00" -> <<"2", "5", ":", "0", "0">>
          [] text = "Cancelled" -> <<"C", "a", "n", "c", "e", "l", "l", "e", "d">>
          [] text = " " -> <<" ">>
          [] text = "a" -> <<"a">>
          [] text = "A " -> <<"A", " ">>
          [] text = "b" -> <<"b">>
          [] text = "" -> <<>>
          [] text = " 12 , ,X4" -> <<" ", "1", "2", " ", ",", " ", ",", "X", "4">>
          [] text = "X4," -> <<"X", "4", ",">>
          [] text = "08:05" -> <<"0", "8", ":", "0", "5">>
          [] text = "8:05" -> <<"8", ":", "0", "5">>
          [] text = "08:10" -> <<"0", "8", ":", "1", "0">>
          [] text = "00:05" -> <<"0", "0", ":", "0", "5">>
          [] text = "23:55" -> <<"2", "3", ":", "5", "5">>
          [] text = "soon" -> <<"s", "o", "o", "n">>
          [] text = "Office,Edinburgh" -> <<"O", "f", "f", "i", "c", "e", ",", "E", "d", "i", "n", "b", "u", "r", "g", "h">>
          [] text = " office , " -> <<" ", "o", "f", "f", "i", "c", "e", " ", ",", " ">>
          [] text = "WFH,Home,Remote" -> <<"W", "F", "H", ",", "H", "o", "m", "e", ",", "R", "e", "m", "o", "t", "e">>
          [] text = "wfh" -> <<"w", "f", "h">>
          [] text = "Office day" -> <<"O", "f", "f", "i", "c", "e", " ", "d", "a", "y">>
          [] text = "WFH - Office catchup" -> <<"W", "F", "H", " ", "-", " ", "O", "f", "f", "i", "c", "e", " ", "c", "a", "t", "c", "h", "u", "p">>
          [] text = "Holiday" -> <<"H", "o", "l", "i", "d", "a", "y">>
          [] text = "Edinburgh trip" -> <<"E", "d", "i", "n", "b", "u", "r", "g", "h", " ", "t", "r", "i", "p">>
          [] text = "Working from home" -> <<"W", "o", "r", "k", "i", "n", "g", " ", "f", "r", "o", "m", " ", "h", "o", "m", "e">>
          [] text = "58" -> <<"5", "8">>
          [] text = "30" -> <<"3", "0">>
          [] text = "0" -> <<"0">>
          [] text = "-5" -> <<"-", "5">>
          [] text = " 58 " -> <<" ", "5", "8", " ">>
          [] text = "abc" -> <<"a", "b", "c">>
          [] text = "unknown" -> <<"u", "n", "k", "n", "o", "w", "n">>
          [] text = "unavailable" -> <<"u", "n", "a", "v", "a", "i", "l", "a", "b", "l", "e">>
          [] text = "notify" -> <<"n", "o", "t", "i", "f", "y">>
          [] text = "notify." -> <<"n", "o", "t", "i", "f", "y", ".">>
          [] text = "notify.mobile" -> <<"n", "o", "t", "i", "f", "y", ".", "m", "o", "b", "i", "l", "e">> ]

Configs ==
    [ daily_quota : 1..MaxQuota,
      reserved_for_manual : 0..MaxReserved,
      max_auto_calls : 1..MaxAuto,
      bus_routes : { "12" },
      notify_service : { "notify.mobile" } ]

\* What a request was answered: by whom it was sent, to which service, how it
\* ended and, for a 200 answer, with which body.
Answer(p, service, outcome, body) ==
    [to |-> p, service |-> service, outcome |-> outcome,
     body |-> IF outcome = "ok" THEN body ELSE <<>>]

NoAnswer == [to |-> "nobody", service |-> "none", outcome |-> "none", body |-> <<>>]

\* What one manual refresh has done since it began:
\*   requests  the requests it has sent to the primary API
\*   counted   the calls it has counted
\*   notify    how its call of the notify service ended ("none": no call)
\*   ended     how its async_send_notification ended ("none": not yet)
NoPress == [requests |-> 0, counted |-> 0, notify |-> "none", ended |-> "none"]

NoSnapshot == [source |-> SOURCE_NONE, departures |-> <<>>]

-----------------------------------------------------------------------------
(* The quota ledger *)

Ledger == [calls |-> calls_today, auto |-> auto_calls_today, last |-> last_reset_date]

\* Mutant: the reset runs at every access, whatever the stored date.
check_daily_reset_every_access(l, now) == [calls |-> 0, auto |-> 0, last |-> now]

\* Mutant: the reset zeroes calls_today and forgets auto_calls_today.
check_daily_reset_calls_only(l, now) ==
    IF l.last = NoDate \/ l.last # now
    THEN [calls |-> 0, auto |-> l.auto, last |-> now]
    ELSE l

\* _check_daily_reset
check_daily_reset(l, now) ==
    IF l.last = NoDate \/ l.last # now
    THEN [calls |-> 0, auto |-> 0, last |-> now]
    ELSE l

\* Mutant: the auto-call cap is not consulted.
can_call_api_auto_no_cap(l, cfg) ==
    l.calls < cfg.daily_quota - cfg.reserved_for_manual

\* Mutant: the reservation for manual calls is not subtracted.
can_call_api_auto_no_reserve(l, cfg) ==
    /\ l.calls < cfg.daily_quota
    /\ l.auto < cfg.max_auto_calls

\* can_call_api_auto, on the ledger its _check_daily_reset call leaves
can_call_api_auto(l, cfg) ==
    /\ l.calls < cfg.daily_quota - cfg.reserved_for_manual
    /\ l.auto < cfg.max_auto_calls

\* Mutant: the manual admission keeps out of the reserved share too.
can_call_api_manual_reserved(l, cfg) ==
    l.calls < cfg.daily_quota - cfg.reserved_for_manual

\* can_call_api_manual, on the ledger its _check_daily_reset call leaves
can_call_api_manual(l, cfg) == l.calls < cfg.daily_quota

-----------------------------------------------------------------------------
(* The departure normalizers *)

SortKey(d) == IF d.due_mins = Absent \/ d.due_mins = 0 THEN SortSentinel ELSE d.due_mins

\* Mutant: a record goes before the records of its own key.
RECURSIVE InsertByKey_before_ties(_, _)
InsertByKey_before_ties(s, d) ==
    IF s = <<>> THEN <<d>>
    ELSE IF SortKey(d) <= SortKey(Head(s)) THEN <<d>> \o s
    ELSE <<Head(s)>> \o InsertByKey_before_ties(Tail(s), d)

RECURSIVE InsertByKey(_, _)
InsertByKey(s, d) ==
    IF s = <<>> THEN <<d>>
    ELSE IF SortKey(d) < SortKey(Head(s)) THEN <<d>> \o s
    ELSE <<Head(s)>> \o InsertByKey(Tail(s), d)

\* list.sort(key=...): stable, ascending by key
RECURSIVE SortByDue(_)
SortByDue(s) ==
    IF s = <<>> THEN <<>>
    ELSE InsertByKey(SortByDue(SubSeq(s, 1, Len(s) - 1)), s[Len(s)])

InAllowlist(d, allowlist) == allowlist = {} \/ d.route \in allowlist

\* str.split(","): the pieces of a text (given by its characters) between its
\* commas.
RECURSIVE SplitCommas(_, _)
SplitCommas(text, piece) ==
    IF text = <<>> THEN <<piece>>
    ELSE IF Head(text) = "," THEN <<piece>> \o SplitCommas(Tail(text), <<>>)
    ELSE SplitCommas(Tail(text), Append(piece, Head(text)))

\* str.strip(): without the blanks at either end.
RECURSIVE Strip(_)
Strip(text) ==
    IF text = <<>> THEN <<>>
    ELSE IF Head(text) = " " THEN Strip(Tail(text))
    ELSE IF text[Len(text)] = " " THEN Strip(SubSeq(text, 1, Len(text) - 1))
    ELSE text

\* The string of a sequence of characters.
RECURSIVE Join(_)
Join(text) == IF text = <<>> THEN "" ELSE Head(text) \o Join(Tail(text))

\* Mutant: the entries are taken as they stand between the commas.
split_routes_unstripped(text) ==
    LET pieces == SplitCommas(text, <<>>)
    IN  { Join(pieces[i]) : i \in { k \in 1..Len(pieces) : pieces[k] # <<>> } }

\* [r.strip() for r in text.split(",") if r.strip()], as the set of its
\* entries
split_routes(text) ==
    LET pieces == SplitCommas(text, <<>>)
    IN  { Join(Strip(pieces[i])) : i \in { k \in 1..Len(pieces) : Strip(pieces[k]) # <<>> } }

\* The allow-list of every text a configuration can hold, worked out once.
Allowlists == [text \in BusRouteTexts |-> split_routes(Characters[text])]

\* allowlist = [r.strip() for r in config.get(CONF_BUS_ROUTES, "").split(",")
\*              if r.strip()]
route_allowlist(cfg) == Allowlists[cfg.bus_routes]

\* A value of a JSON object: a text, null, or no such key.
Text(t) == [kind |-> "text", text |-> t]

Null == [kind |-> "null", text |-> ""]

Missing == [kind |-> "missing", text |-> ""]

\* dict.get(key, default)
Get(value, default) == IF value.kind = "missing" THEN default ELSE value

\* The truth value Python gives a text or None.
Truthy(value) == value.kind = "text" /\ value.text # ""

DigitValue ==
    [ c \in {"0", "1", "2", "3", "4", "5", "6", "7", "8", "9"} |->
        CASE c = "0" -> 0 [] c = "1" -> 1 [] c = "2" -> 2 [] c = "3" -> 3 [] c = "4" -> 4
          [] c = "5" -> 5 [] c = "6" -> 6 [] c = "7" -> 7 [] c = "8" -> 8 [] c = "9" -> 9 ]

\* One or two digits.
IsNumber(cs) == Len(cs) \in {1, 2} /\ \A i \in 1..Len(cs) : cs[i] \in DOMAIN DigitValue

NumberOf(cs) ==
    IF Len(cs) = 1 THEN DigitValue[cs[1]] ELSE 10 * DigitValue[cs[1]] + DigitValue[cs[2]]

\* datetime.strptime(text, "%H:%M"), as the minute of the day, or ValueError:
\* one or two digits up to 23, a colon, one or two digits up to 59.
strptime(cs) ==
    LET colons == { i \in 1..Len(cs) : cs[i] = ":" }
    IN  IF Cardinality(colons) # 1 THEN ValueError
        ELSE LET k == CHOOSE i \in colons : TRUE
                 h == SubSeq(cs, 1, k - 1)
                 m == SubSeq(cs, k + 1, Len(cs))
             IN  IF IsNumber(h) /\ IsNumber(m) /\ NumberOf(h) <= 23 /\ NumberOf(m) <= 59
                 THEN MinutesPerHour * NumberOf(h) + NumberOf(m)
                 ELSE ValueError

\* l.181-183: the aimed, the expected and the best time of a raw departure.
aimed_time(dep) == Get(dep.aimed_departure_time, Text(""))

expected_time(dep) == Get(dep.expected_departure_time, aimed_time(dep))

best_estimate(dep) ==
    Get(dep.best_departure_estimate,
        IF Truthy(expected_time(dep)) THEN expected_time(dep) ELSE aimed_time(dep))

\* l.186-201: the minutes until the departure, at the clock time `now`
\* (minute of the day and second).
due_minutes(best, now) ==
    IF ~Truthy(best) THEN Absent
    ELSE LET t == strptime(Characters[best.text])
             now_s == SecondsPerMinute * now.minute + now.second
             dep_s == IF SecondsPerMinute * t < now_s
                      THEN SecondsPerMinute * t + SecondsPerDay
                      ELSE SecondsPerMinute * t
         IN  IF t = ValueError THEN Absent
             ELSE (dep_s - now_s) \div SecondsPerMinute

\* Mutant: times that are written differently count as a late departure.
departure_status_unparsed(aimed, expected) ==
    IF Truthy(aimed) /\ Truthy(expected) /\ aimed # expected THEN "Late"
    ELSE IF Truthy(expected) THEN "On time"
    ELSE "Scheduled"

\* l.204-218
departure_status(aimed, expected) ==
    IF Truthy(aimed) /\ Truthy(expected) /\ aimed # expected
    THEN LET aimed_t == strptime(Characters[aimed.text])
             expected_t == strptime(Characters[expected.text])
         IN  IF aimed_t = ValueError \/ expected_t = ValueError THEN "On time"
             ELSE IF expected_t > aimed_t THEN "Late"
             ELSE IF expected_t < aimed_t THEN "Early"
             ELSE "On time"
    ELSE IF Truthy(expected) THEN "On time"
    ELSE "Scheduled"

\* l.227: `expected is not None and expected != aimed`
is_realtime(aimed, expected) == expected.kind # "null" /\ expected # aimed

\* l.220-228: the record of one raw departure of a route.
transportapi_record(route, dep, now) ==
    [route |-> route,
     due_mins |-> due_minutes(best_estimate(dep), now),
     aimed |-> aimed_time(dep),
     expected |-> expected_time(dep),
     status |-> departure_status(aimed_time(dep), expected_time(dep)),
     is_realtime |-> is_realtime(aimed_time(dep), expected_time(dep))]

\* l.176-228 without the allow-list: the records of a raw answer, which lists
\* its departures route by route.
transportapi_records(raw, now) ==
    [i \in 1..Len(raw) |-> transportapi_record(raw[i].route, raw[i].dep, now)]

parse_transportapi_departures(body, cfg) ==
    SortByDue(SelectSeq(body, LAMBDA d : InAllowlist(d, route_allowlist(cfg))))

parse_scraper_departures(body, cfg) ==
    SortByDue(SelectSeq(body, LAMBDA d : InAllowlist(d, route_allowlist(cfg))))

-----------------------------------------------------------------------------
(* The scraper microservice: the rows of the departure board *)

\* str.lower() and str.upper(), on the letters of the texts above.
LowerOf(c) ==
    CASE c = "A" -> "a" [] c = "B" -> "b" [] c = "C" -> "c" [] c = "D" -> "d"
      [] c = "E" -> "e" [] c = "F" -> "f" [] c = "H" -> "h" [] c = "O" -> "o"
      [] c = "R" -> "r" [] c = "W" -> "w" [] OTHER -> c

UpperOf(c) ==
    CASE c = "a" -> "A" [] c = "b" -> "B" [] c = "c" -> "C" [] c = "d" -> "D"
      [] c = "e" -> "E" [] c = "i" -> "I" [] c = "l" -> "L" [] c = "m" -> "M"
      [] c = "n" -> "N" [] c = "u" -> "U" [] OTHER -> c

Lower(cs) == [i \in 1..Len(cs) |-> LowerOf(cs[i])]

Upper(cs) == [i \in 1..Len(cs) |-> UpperOf(cs[i])]

\* `sub in text`
Contains(cs, sub) ==
    \E i \in 1..(Len(cs) - Len(sub) + 1) : SubSeq(cs, i, i + Len(sub) - 1) = sub

IsDigit(c) == c \in DOMAIN DigitValue

\* int(text) of a text of digits.
RECURSIVE DigitsValue(_)
DigitsValue(cs) ==
    IF cs = <<>> THEN 0
    ELSE 10 * DigitsValue(SubSeq(cs, 1, Len(cs) - 1)) + DigitValue[cs[Len(cs)]]

\* int(text), or ValueError: the text, without the blanks around it, is one
\* digit or more.
int(cs) ==
    LET digits == Strip(cs)
    IN  IF digits # <<>> /\ \A i \in 1..Len(digits) : IsDigit(digits[i])
        THEN DigitsValue(digits)
        ELSE ValueError

\* re.search(r'(\d+)', text): the first run of digits, <<>> for no match.
FirstDigits(cs) ==
    IF \A i \in 1..Len(cs) : ~IsDigit(cs[i]) THEN <<>>
    ELSE LET first == CHOOSE i \in 1..Len(cs) :
                        IsDigit(cs[i]) /\ \A j \in 1..(i - 1) : ~IsDigit(cs[j])
             last == CHOOSE k \in first..Len(cs) :
                        /\ \A j \in first..k : IsDigit(cs[j])
                        /\ k = Len(cs) \/ ~IsDigit(cs[k + 1])
         IN  SubSeq(cs, first, last)

\* str.split(':'): the pieces of a text between its colons.
RECURSIVE SplitColons(_, _)
SplitColons(text, piece) ==
    IF text = <<>> THEN <<piece>>
    ELSE IF Head(text) = ":" THEN <<piece>> \o SplitColons(Tail(text), <<>>)
    ELSE SplitColons(Tail(text), Append(piece, Head(text)))

\* text_content() of a cell, stripped: None for no cell and for a blank one
\* (l.273-274, l.291-292).
cell_text(cell) ==
    IF Truthy(cell) /\ Strip(Characters[cell.text]) # <<>>
    THEN Text(Join(Strip(Characters[cell.text])))
    ELSE Null

\* l.309-321: the minutes until the clock time a text like "08:45" names, 0
\* when the text is no such time (`except: pass`).
clock_due_mins(cs, now) ==
    LET time_parts == SplitColons(cs, <<>>)
        hour == int(time_parts[1])
        minute == int(SubSeq(time_parts[2], 1, Min(2, Len(time_parts[2]))))
    IN  IF \/ hour = ValueError \/ minute = ValueError
           \/ hour >= HoursPerDay \/ minute >= MinutesPerHour
        THEN 0
        ELSE LET t == MinutesPerHour * hour + minute
                 now_s == SecondsPerMinute * now.minute + now.second
                 dep_s == IF SecondsPerMinute * t < now_s
                          THEN SecondsPerMinute * t + SecondsPerDay
                          ELSE SecondsPerMinute * t
             IN  (dep_s - now_s) \div SecondsPerMinute

\* l.284-321: due_mins of a row from the text of its time cell.
board_due_mins(time_text, now) ==
    IF ~Truthy(time_text) THEN 0
    ELSE LET cs == Characters[time_text.text]
             time_text_lower == Lower(cs)
         IN  IF \/ Contains(time_text_lower, <<"d", "u", "e">>)
                \/ Contains(time_text_lower, <<"n", "o", "w">>)
             THEN 0
             ELSE IF Contains(time_text_lower, <<"m", "i", "n">>)
             THEN (IF FirstDigits(cs) = <<>> THEN 0 ELSE DigitsValue(FirstDigits(cs)))
             ELSE IF Contains(cs, <<":">>) THEN clock_due_mins(cs, now)
             ELSE 0

\* A row of the departure board: its route cell and its time cell.
Row(route, time) == [route |-> route, time |-> time]

\* l.357-364: the BusDeparture of a row that names its route.
BusDeparture(row, now) ==
    [route |-> cell_text(row.route).text,
     due_mins |-> board_due_mins(cell_text(row.time), now),
     aimed |-> cell_text(row.time),
     expected |-> cell_text(row.time)]

\* Mutant: every row found on the page is read.
board_departures_unlimited(rows, now) ==
    LET named == SelectSeq(rows, LAMBDA row : Truthy(cell_text(row.route)))
    IN  [i \in 1..Len(named) |-> BusDeparture(named[i], now)]

\* l.264-368: the departures of the first RowLimit rows; a row that names no
\* route is passed over (l.280-281).
board_departures(rows, now) ==
    LET first == SubSeq(rows, 1, Min(RowLimit, Len(rows)))
        named == SelectSeq(first, LAMBDA row : Truthy(cell_text(row.route)))
    IN  [i \in 1..Len(named) |-> BusDeparture(named[i], now)]

-----------------------------------------------------------------------------
\* No normalizer has been called on its own.
NotCalled == [call |-> "none"]

\* The scraper microservice is another program: it is not followed.
NotRunning == [phase |-> "none"]

\* The coordinator as __init__ leaves it.
Constructed ==
    /\ today = 0
    /\ calls_today = 0
    /\ auto_calls_today = 0
    /\ last_reset_date = NoDate
    /\ data = NoSnapshot
    /\ pc = [p \in Procs |-> "idle"]
    /\ source = [p \in Procs |-> SOURCE_NONE]
    /\ departures = [p \in Procs |-> <<>>]
    /\ manual_source = [p \in Procs |-> SOURCE_NONE]
    /\ manual_departures = [p \in Procs |-> <<>>]
    /\ auto_requests = 0
    /\ others_today = FALSE
    /\ normalizer = NotCalled
    /\ observed = [answer |-> NoAnswer, skipped |-> {}, press |-> NoPress]

Init ==
    /\ config \in Configs
    /\ Constructed
    /\ app = NotRunning

-----------------------------------------------------------------------------
(* Pieces of the operations *)

SetLedger(l) ==
    /\ calls_today' = l.calls
    /\ auto_calls_today' = l.auto
    /\ last_reset_date' = l.last

\* The locals of a fetch whose frame is gone.
DropFetchLocals(p) ==
    /\ source' = [source EXCEPT ![p] = SOURCE_NONE]
    /\ departures' = [departures EXCEPT ![p] = <<>>]

DropManualLocals(p) ==
    /\ manual_source' = [manual_source EXCEPT ![p] = SOURCE_NONE]
    /\ manual_departures' = [manual_departures EXCEPT ![p] = <<>>]

\* str.split(".", 1): the text before the first dot and the text after it, or
\* the text alone when it has no dot.
split_once(cs) ==
    LET dots == { i \in 1..Len(cs) : cs[i] = "." }
    IN  IF dots = {} THEN <<cs>>
        ELSE LET k == CHOOSE i \in dots : \A j \in dots : i <= j
             IN  <<SubSeq(cs, 1, k - 1), SubSeq(cs, k + 1, Len(cs))>>

\* async_send_notification l.363-366 and l.395-396: the notify service is
\* called when a service is configured and its name has two parts.
calls_notify(text) == text # "" /\ Len(split_once(Characters[text])) = 2

\* The same for every text a configuration can hold, worked out once.
CallsNotify == [text \in NotifyTexts |-> calls_notify(text)]

\* What the caller p does once async_refresh has returned: the timer and
\* reset_counters are done; async_manual_refresh goes on into
\* async_send_notification (l.359-413), which builds its message from
\* self.data and awaits the notify service when one is configured as
\* "<domain>.<service>".
AfterRefresh(p) ==
    /\ pc' = [pc EXCEPT ![p] = IF p = "manual" /\ CallsNotify[config.notify_service]
                               THEN "notify" ELSE "idle"]
    /\ DropManualLocals(p)

\* _async_update_data l.248-260 entered by caller p with the ledger l: the
\* daily-reset check, the automatic admission, and the request it leads to.
BeginUpdate(p, l) ==
    LET l1 == check_daily_reset(l, today)
        admitted == can_call_api_auto(l1, config)
    IN  /\ SetLedger(l1)
        /\ pc' = [pc EXCEPT ![p] = IF admitted THEN "primary" ELSE "scraper"]
        /\ source' = [source EXCEPT ![p] = SOURCE_NONE]
        /\ departures' = [departures EXCEPT ![p] = <<>>]

\* Mutant: the request that left no departures is counted as a call.
UpdateFallback_counted(p, l, src) ==
    /\ SetLedger([l EXCEPT !.calls = @ + 1])
    /\ pc' = [pc EXCEPT ![p] = "scraper"]
    /\ source' = [source EXCEPT ![p] = src]
    /\ departures' = [departures EXCEPT ![p] = <<>>]
    /\ UNCHANGED <<data, manual_source, manual_departures>>

\* _async_update_data l.267-268: no departures from the primary, so the
\* scraper is requested.
UpdateFallback(p, l, src) ==
    /\ SetLedger(l)
    /\ pc' = [pc EXCEPT ![p] = "scraper"]
    /\ source' = [source EXCEPT ![p] = src]
    /\ departures' = [departures EXCEPT ![p] = <<>>]
    /\ UNCHANGED <<data, manual_source, manual_departures>>

\* _async_update_data l.273-304 returns the snapshot, which becomes self.data.
FinishUpdate(p, l, src, deps) ==
    /\ SetLedger(l)
    /\ data' = [source |-> src, departures |-> deps]
    /\ DropFetchLocals(p)
    /\ AfterRefresh(p)

\* An exception leaves _async_update_data: async_refresh logs it, keeps
\* self.data and returns.
AbortUpdate(p) ==
    /\ DropFetchLocals(p)
    /\ AfterRefresh(p)
    /\ UNCHANGED <<calls_today, auto_calls_today, last_reset_date, data>>

-----------------------------------------------------------------------------
(* The periodic refresh: _async_update_data *)

TimerStart ==
    /\ pc["timer"] = "idle"
    /\ BeginUpdate("timer", Ledger)
    /\ UNCHANGED <<config, today, data, manual_source, manual_departures>>

\* _fetch_transportapi l.137-140: a 200 answer is read and counted, and the
\* caller leaves the `async with` block of the request.  The exit of the block
\* is awaited (the response is released), and it is for the HTTP client to
\* suspend the caller there or not.  Suspended, the caller lets other callers
\* run before it goes on; its frame holds the answer it returns: the
\* departures it will be parsed to and the source they will be given.
LeaveRequest(p, exit, body) ==
    /\ SetLedger([Ledger EXCEPT !.calls = @ + 1])
    /\ pc' = [pc EXCEPT ![p] = exit]
    /\ source' = [source EXCEPT ![p] = IF body # <<>> THEN SOURCE_TRANSPORTAPI
                                                      ELSE SOURCE_NONE]
    /\ departures' = [departures EXCEPT ![p] =
                         IF body # <<>> THEN parse_transportapi_departures(body, config)
                                        ELSE <<>>]
    /\ UNCHANGED <<data, manual_source, manual_departures>>

\* _fetch_transportapi has returned its answer to _async_update_data
\* (l.260-268), the ledger being l: an answer with departures is counted as
\* an automatic call.
PrimaryReturned(p, l, src, deps) ==
    LET l1 == [l EXCEPT !.auto = IF src = SOURCE_TRANSPORTAPI THEN @ + 1 ELSE @]
    IN  IF deps # <<>>
        THEN FinishUpdate(p, l1, src, deps)
        ELSE UpdateFallback(p, l1, src)

\* The answer to the primary request of _async_update_data (l.260, l.136-148),
\* whoever called the refresh.
UpdatePrimaryResponse(p, outcome, body, suspends) ==
    /\ pc[p] = "primary"
    /\ outcome \in HttpOutcomes
    /\ body \in IF outcome = "ok" THEN PrimaryBodies ELSE {<<>>}
    /\ \/ /\ outcome = "ok"
          /\ IF suspends
             THEN LeaveRequest(p, "primary_exit", body)
             ELSE PrimaryReturned(p, [Ledger EXCEPT !.calls = @ + 1],
                                  IF body # <<>> THEN SOURCE_TRANSPORTAPI ELSE SOURCE_NONE,
                                  IF body # <<>>
                                  THEN parse_transportapi_departures(body, config)
                                  ELSE <<>>)
       \/ /\ outcome \in {"non200", "client_error"}
          /\ UpdateFallback(p, Ledger, SOURCE_NONE)
       \/ /\ outcome = "timeout"
          /\ AbortUpdate(p)
    /\ UNCHANGED <<config, today>>

\* The caller suspended at the exit of the request of _async_update_data
\* goes on.
UpdatePrimaryExit(p) ==
    /\ pc[p] = "primary_exit"
    /\ PrimaryReturned(p, Ledger, source[p], departures[p])
    /\ UNCHANGED <<config, today>>

\* The answer to the scraper request of _async_update_data (l.268-274).
UpdateScraperResponse(p, outcome, body) ==
    /\ pc[p] = "scraper"
    /\ outcome \in HttpOutcomes
    /\ body \in IF outcome = "ok" THEN ScraperBodies ELSE {<<>>}
    /\ \/ /\ outcome = "ok"
          /\ LET deps == IF body # <<>> THEN parse_scraper_departures(body, config)
                                        ELSE departures[p]
                 src == IF body # <<>> THEN SOURCE_SCRAPER ELSE source[p]
             IN  FinishUpdate(p, Ledger, src, deps)
       \/ /\ outcome \in {"non200", "client_error"}
          /\ FinishUpdate(p, Ledger, source[p], departures[p])
       \/ /\ outcome = "timeout"
          /\ AbortUpdate(p)
    /\ UNCHANGED <<config, today>>

-----------------------------------------------------------------------------
(* The manual refresh: async_manual_refresh *)

\* l.328-340: the daily-reset check, the manual admission and the request it
\* leads to.
ManualStart(p) ==
    /\ p = "manual"
    /\ pc[p] = "idle"
    /\ LET l1 == check_daily_reset(Ledger, today)
           admitted == can_call_api_manual(l1, config)
       IN  /\ SetLedger(l1)
           /\ pc' = [pc EXCEPT ![p] = IF admitted THEN "m_primary" ELSE "m_scraper"]
    /\ source' = [source EXCEPT ![p] = SOURCE_NONE]
    /\ departures' = [departures EXCEPT ![p] = <<>>]
    /\ UNCHANGED <<config, today, data, manual_source, manual_departures>>

\* l.346-347: no departures from the primary, so the scraper is requested.
ManualFallback(p, l, src) ==
    /\ SetLedger(l)
    /\ pc' = [pc EXCEPT ![p] = "m_scraper"]
    /\ source' = [source EXCEPT ![p] = src]
    /\ departures' = [departures EXCEPT ![p] = <<>>]
    /\ UNCHANGED <<data, manual_source, manual_departures>>

\* l.352-356: the manual fetch has its result and calls async_refresh, which
\* enters _async_update_data.
FinishManualFetch(p, l, src, deps) ==
    /\ manual_source' = [manual_source EXCEPT ![p] = src]
    /\ manual_departures' = [manual_departures EXCEPT ![p] = deps]
    /\ BeginUpdate(p, l)
    /\ UNCHANGED data

\* An exception leaves async_manual_refresh before l.352: nothing is stored, no
\* refresh and no notification follow.
AbortManual(p) ==
    /\ pc' = [pc EXCEPT ![p] = "idle"]
    /\ DropFetchLocals(p)
    /\ UNCHANGED <<calls_today, auto_calls_today, last_reset_date, data,
                   manual_source, manual_departures>>

\* _fetch_transportapi has returned its answer to async_manual_refresh
\* (l.340-347), the ledger being l.
ManualPrimaryReturned(p, l, src, deps) ==
    IF deps # <<>>
    THEN FinishManualFetch(p, l, src, deps)
    ELSE ManualFallback(p, l, src)

\* The answer to the primary request of the manual fetch (l.340-347).
ManualPrimaryResponse(p, outcome, body, suspends) ==
    /\ pc[p] = "m_primary"
    /\ outcome \in HttpOutcomes
    /\ body \in IF outcome = "ok" THEN PrimaryBodies ELSE {<<>>}
    /\ \/ /\ outcome = "ok"
          /\ IF suspends
             THEN LeaveRequest(p, "m_primary_exit", body)
             ELSE ManualPrimaryReturned(p, [Ledger EXCEPT !.calls = @ + 1],
                                        IF body # <<>> THEN SOURCE_TRANSPORTAPI
                                                       ELSE SOURCE_NONE,
                                        IF body # <<>>
                                        THEN parse_transportapi_departures(body, config)
                                        ELSE <<>>)
       \/ /\ outcome \in {"non200", "client_error"}
          /\ ManualFallback(p, Ledger, SOURCE_NONE)
       \/ /\ outcome = "timeout"
          /\ AbortManual(p)
    /\ UNCHANGED <<config, today>>

\* The caller suspended at the exit of the request of the manual fetch goes
\* on.
ManualPrimaryExit(p) ==
    /\ pc[p] = "m_primary_exit"
    /\ ManualPrimaryReturned(p, Ledger, source[p], departures[p])
    /\ UNCHANGED <<config, today>>

\* The answer to the scraper request of the manual fetch (l.347-356).
ManualScraperResponse(p, outcome, body) ==
    /\ pc[p] = "m_scraper"
    /\ outcome \in HttpOutcomes
    /\ body \in IF outcome = "ok" THEN ScraperBodies ELSE {<<>>}
    /\ \/ /\ outcome = "ok"
          /\ LET deps == IF body # <<>> THEN parse_scraper_departures(body, config)
                                        ELSE departures[p]
                 src == IF body # <<>> THEN SOURCE_SCRAPER ELSE source[p]
             IN  FinishManualFetch(p, Ledger, src, deps)
       \/ /\ outcome \in {"non200", "client_error"}
          /\ FinishManualFetch(p, Ledger, source[p], departures[p])
       \/ /\ outcome = "timeout"
          /\ AbortManual(p)
    /\ UNCHANGED <<config, today>>

-----------------------------------------------------------------------------
(* The notification of a manual refresh: async_send_notification *)

\* How the call of the notify service can end: the notification is sent, or
\* the call raises (no such service, a failure of the service).
NotifyOutcomes == {"sent", "raised"}

\* Mutant: the exception of the service call leaves async_send_notification.
notification_ends_uncaught(outcome) == IF outcome = "raised" THEN "raised" ELSE "returned"

\* l.394-416: how async_send_notification ends after the service call: the
\* handler of l.415 catches what the call raises.
notification_ends(outcome) == "returned"

\* The notify service call returns or raises (l.397-416): either way the
\* exception handler leaves the caller to return normally.
NotifyDone(p, outcome) ==
    /\ pc[p] = "notify"
    /\ outcome \in NotifyOutcomes
    /\ pc' = [pc EXCEPT ![p] = "idle"]
    /\ UNCHANGED <<config, today, calls_today, auto_calls_today, last_reset_date, data,
                   source, departures, manual_source, manual_departures>>

-----------------------------------------------------------------------------
(* The reset_counters service and the counter reads *)

\* async_reset_daily_counters (l.418-424): zero, then async_refresh.
ResetCounters(p) ==
    /\ p = "reset"
    /\ pc[p] = "idle"
    /\ BeginUpdate(p, [calls |-> 0, auto |-> 0, last |-> today])
    /\ UNCHANGED <<config, today, data, manual_source, manual_departures>>

\* A read of calls_today, auto_calls_today, can_call_api_auto or
\* can_call_api_manual by an entity: each runs _check_daily_reset.
ReadCounters ==
    /\ SetLedger(check_daily_reset(Ledger, today))
    /\ UNCHANGED <<config, today, data, pc, source, departures, manual_source,
                   manual_departures>>

-----------------------------------------------------------------------------
(* The clock *)

\* Midnight: the date changes.
Tick ==
    /\ today < MaxDay
    /\ today' = today + 1
    /\ UNCHANGED <<config, calls_today, auto_calls_today, last_reset_date, data, pc,
                   source, departures, manual_source, manual_departures>>

-----------------------------------------------------------------------------
(* History variables *)

\* _async_update_data sends a request to the primary API in this step.
RequestSent == \E p \in Procs : pc[p] # "primary" /\ pc'[p] = "primary"

\* A caller other than the timer takes this step.
OtherCallerRuns == \E p \in Procs \ {"timer"} : pc'[p] # pc[p]

History(count, track, log, a) ==
    /\ UNCHANGED <<normalizer, app>>
    /\ auto_requests' =
          IF ~count THEN auto_requests
          ELSE IF today' # today THEN 0
          ELSE IF RequestSent THEN Min(auto_requests + 1, config.max_auto_calls + 1)
          ELSE auto_requests
    /\ others_today' =
          IF ~track THEN others_today
          ELSE IF today' # today THEN FALSE
          ELSE others_today \/ OtherCallerRuns
    /\ observed' =
          IF ~log THEN observed
          ELSE [answer |-> a,
                skipped |-> { p \in Procs : /\ pc'[p] = "scraper"
                                            /\ pc[p] = "scraper" => p \in observed.skipped
                                            /\ pc[p] \notin {"primary", "primary_exit"} },
                press |-> observed.press]

-----------------------------------------------------------------------------
\* The steps of the callers and of the clock.  `suspends` tells whether the
\* HTTP client suspends a caller that leaves the block of a counted request.
Steps(count, track, log, suspends) ==
    \/ TimerStart /\ History(count, track, log, NoAnswer)
    \/ \E p \in Procs : \E outcome \in HttpOutcomes :
       \E body \in (IF outcome = "ok" THEN PrimaryBodies ELSE {<<>>}) :
          /\ UpdatePrimaryResponse(p, outcome, body, suspends)
          /\ History(count, track, log, Answer(p, "primary", outcome, body))
    \/ \E p \in Procs : \E outcome \in HttpOutcomes :
       \E body \in (IF outcome = "ok" THEN ScraperBodies ELSE {<<>>}) :
          /\ UpdateScraperResponse(p, outcome, body)
          /\ History(count, track, log, Answer(p, "scraper", outcome, body))
    \/ \E p \in Procs : ManualStart(p) /\ History(count, track, log, NoAnswer)
    \/ \E p \in Procs : \E outcome \in HttpOutcomes :
       \E body \in (IF outcome = "ok" THEN PrimaryBodies ELSE {<<>>}) :
          /\ ManualPrimaryResponse(p, outcome, body, suspends)
          /\ History(count, track, log, Answer(p, "primary", outcome, body))
    \/ \E p \in Procs : \E outcome \in HttpOutcomes :
       \E body \in (IF outcome = "ok" THEN ScraperBodies ELSE {<<>>}) :
          /\ ManualScraperResponse(p, outcome, body)
          /\ History(count, track, log, Answer(p, "scraper", outcome, body))
    \/ \E p \in Procs : \E outcome \in NotifyOutcomes :
          NotifyDone(p, outcome) /\ History(count, track, log, NoAnswer)
    \/ \E p \in Procs : ResetCounters(p) /\ History(count, track, log, NoAnswer)
    \/ ReadCounters /\ History(count, track, log, NoAnswer)
    \/ Tick /\ History(count, track, log, NoAnswer)

Next == Steps(FALSE, FALSE, FALSE, FALSE)

NextRequests == Steps(TRUE, FALSE, FALSE, FALSE)

NextDays == Steps(FALSE, TRUE, FALSE, FALSE)

NextAnswers == Steps(FALSE, FALSE, TRUE, FALSE)

NextExit ==
    \/ Steps(FALSE, FALSE, FALSE, TRUE)
    \/ \E p \in Procs : UpdatePrimaryExit(p) /\ History(FALSE, FALSE, FALSE, NoAnswer)
    \/ \E p \in Procs : ManualPrimaryExit(p) /\ History(FALSE, FALSE, FALSE, NoAnswer)

\* The program, no caller being suspended where it leaves the block of a
\* counted request.
Spec == Init /\ [][Next]_vars

\* The configurations followed where every caller is suspended: every quota,
\* with the largest reservation and the largest cap on automatic calls. Both a
\* denied and an admitted automatic cycle happen among them.
ExitConfigs ==
    { cfg \in Configs : /\ cfg.reserved_for_manual = MaxReserved
                        /\ cfg.max_auto_calls = MaxAuto }

InitExit ==
    /\ config \in ExitConfigs
    /\ Constructed
    /\ app = NotRunning

\* The program, every caller being suspended there (a caller that goes on at
\* once is a caller that was not suspended).
SpecExit == InitExit /\ [][NextExit]_vars

\* The configurations of a manual refresh: every text of the notify service.
ManualConfigs ==
    [ daily_quota : 1..MaxQuota,
      reserved_for_manual : 0..MaxReserved,
      max_auto_calls : 1..MaxAuto,
      bus_routes : { "12" },
      notify_service : NotifyTexts ]

InitManual ==
    /\ config \in ManualConfigs
    /\ Constructed
    /\ app = NotRunning

\* What the manual refresh has done is put on record: `a` is the answer the
\* step received, `notify` how the call of the notify service ended in it.
PressHistory(a, notify) ==
    LET m == "manual"
        before == IF pc[m] = "idle" /\ pc'[m] # "idle" THEN NoPress ELSE observed.press
        sends == pc'[m] # pc[m] /\ pc'[m] \in {"m_primary", "primary"}
        counts == a.to = m /\ a.service = "primary" /\ a.outcome = "ok"
    IN  /\ observed' =
              [observed EXCEPT !.press =
                  [requests |-> before.requests + (IF sends THEN 1 ELSE 0),
                   counted |-> before.counted + (IF counts THEN 1 ELSE 0),
                   notify |-> IF notify # "none" THEN notify ELSE before.notify,
                   ended |-> IF pc[m] = "notify" /\ pc'[m] = "idle"
                             THEN notification_ends(notify)
                             ELSE IF pc[m] \in {"primary", "scraper"} /\ pc'[m] = "idle"
                             THEN "returned"
                             ELSE before.ended]]
        /\ UNCHANGED <<auto_requests, others_today, normalizer, app>>

\* The refresh button (or the refresh_commute service) alone: one manual
\* refresh after the other, no other caller.
NextManual ==
    \/ ManualStart("manual") /\ PressHistory(NoAnswer, "none")
    \/ \E outcome \in HttpOutcomes :
       \E body \in (IF outcome = "ok" THEN PrimaryBodies ELSE {<<>>}) :
          /\ ManualPrimaryResponse("manual", outcome, body, FALSE)
          /\ PressHistory(Answer("manual", "primary", outcome, body), "none")
    \/ \E outcome \in HttpOutcomes :
       \E body \in (IF outcome = "ok" THEN ScraperBodies ELSE {<<>>}) :
          /\ ManualScraperResponse("manual", outcome, body)
          /\ PressHistory(Answer("manual", "scraper", outcome, body), "none")
    \/ \E outcome \in HttpOutcomes :
       \E body \in (IF outcome = "ok" THEN PrimaryBodies ELSE {<<>>}) :
          /\ UpdatePrimaryResponse("manual", outcome, body, FALSE)
          /\ PressHistory(Answer("manual", "primary", outcome, body), "none")
    \/ \E outcome \in HttpOutcomes :
       \E body \in (IF outcome = "ok" THEN ScraperBodies ELSE {<<>>}) :
          /\ UpdateScraperResponse("manual", outcome, body)
          /\ PressHistory(Answer("manual", "scraper", outcome, body), "none")
    \/ \E outcome \in NotifyOutcomes :
          NotifyDone("manual", outcome) /\ PressHistory(NoAnswer, outcome)
    \/ ReadCounters /\ PressHistory(NoAnswer, "none")
    \/ Tick /\ PressHistory(NoAnswer, "none")

SpecManual == InitManual /\ [][NextManual]_vars

\* The program, with the primary requests of _async_update_data counted.
SpecRequests == Init /\ [][NextRequests]_vars

\* The program, with the days on which only the timer ran told apart.
SpecDays == Init /\ [][NextDays]_vars

\* The program, with the answer to every request on record.
SpecAnswers == Init /\ [][NextAnswers]_vars

-----------------------------------------------------------------------------
(* The departure normalizers, called on their own *)

\* All sequences of at most n elements of S.
SeqsUpTo(S, n) == UNION { [1..k -> S] : k \in 0..n }

\* What the scraper can list for one bus: its route and the minutes it is due
\* in ("Due" is 0, "N min" is N, a clock time up to a day ahead).
ScraperRecords == { Dep(r, d) : r \in {"12", "X4"}, d \in {0, 5, 1200} }

ScraperPayloads == SeqsUpTo(ScraperRecords, MaxLen)

\* The configurations the normalizers are called under: every allow-list text.
NormalizeConfigs ==
    [ daily_quota : {1},
      reserved_for_manual : {0},
      max_auto_calls : {1},
      bus_routes : BusRouteTexts,
      notify_service : { "notify.mobile" } ]

InitNormalize ==
    /\ config \in NormalizeConfigs
    /\ Constructed
    /\ app = NotRunning

\* _parse_scraper_departures is called with the "departures" of a scraper
\* answer.  The normalizers keep nothing from one call to the next, so a
\* behaviour follows one call.
ParseScraper ==
    /\ normalizer = NotCalled
    /\ \E body \in ScraperPayloads :
         normalizer' = [call |-> "scraper", input |-> body,
                        result |-> parse_scraper_departures(body, config)]
    /\ UNCHANGED <<config, today, calls_today, auto_calls_today, last_reset_date, data,
                   pc, source, departures, manual_source, manual_departures,
                   auto_requests, others_today, observed, app>>

RawDep(aimed, expected, best) ==
    [aimed_departure_time |-> aimed, expected_departure_time |-> expected,
     best_departure_estimate |-> best]

\* Raw departures of a primary answer: running late, running early, no
\* expected time, a null expected time, an empty expected time, the same time
\* written differently, an aimed time that is no time, no time at all, and a
\* departure around midnight.
RawDeps ==
    { RawDep(Text("08:05"), Text("08:10"), Text("08:10")),
      RawDep(Text("08:10"), Text("08:05"), Missing),
      RawDep(Text("08:05"), Missing, Missing),
      RawDep(Text("08:05"), Null, Text("08:05")),
      RawDep(Text("08:05"), Text(""), Text("08:05")),
      RawDep(Text("08:05"), Text("8:05"), Missing),
      RawDep(Text("soon"), Text("00:05"), Missing),
      RawDep(Missing, Missing, Text("soon")),
      RawDep(Text("23:55"), Text("00:05"), Text("00:05")) }

RawEntries == { [route |-> r, dep |-> d] : r \in {"12", "X4"}, d \in RawDeps }

\* The departures of one route stand together.
Grouped(raw) ==
    \A i, j, k \in 1..Len(raw) :
       (i < j /\ j < k /\ raw[i].route = raw[k].route) => raw[j].route = raw[i].route

RawPayloads == { raw \in SeqsUpTo(RawEntries, MaxLen) : Grouped(raw) }

\* Clock times of a call: 08:10:00, 08:10:30, 00:05:00 and 23:59:59.
Clocks ==
    { [minute |-> 490, second |-> 0], [minute |-> 490, second |-> 30],
      [minute |-> 5, second |-> 0], [minute |-> 1439, second |-> 59] }

\* _parse_transportapi_departures is called with a primary answer at the
\* clock time `now`.
ParseTransportapi ==
    /\ normalizer = NotCalled
    /\ \E raw \in RawPayloads, now \in Clocks :
         normalizer' = [call |-> "transportapi", input |-> raw, now |-> now,
                        result |-> parse_transportapi_departures(
                                       transportapi_records(raw, now), config)]
    /\ UNCHANGED <<config, today, calls_today, auto_calls_today, last_reset_date, data,
                   pc, source, departures, manual_source, manual_departures,
                   auto_requests, others_today, observed, app>>

NextNormalize ==
    \/ ParseScraper
    \/ ParseTransportapi

\* The normalizers alone, on every input of the bounds.
SpecNormalize == InitNormalize /\ [][NextNormalize]_vars

-----------------------------------------------------------------------------
(* The scraper's reading of the departure board, on its own *)

\* A cell of a row: its text, or None where the row has no such cell.
BoardRouteCells == { Text(t) : t \in BoardRouteTexts } \cup { Null }

BoardTimeCells == { Text(t) : t \in BoardTimeTexts } \cup { Null }

BoardRows == { Row(r, t) : r \in BoardRouteCells, t \in BoardTimeCells }

BoardPayloads == SeqsUpTo(BoardRows, MaxLen)

\* A long board: rows of route 12, due and in 5 minutes in turn, but for the
\* rows `gaps`, whose route cell is `cell`.
LongBoard(n, gaps, cell) ==
    [ i \in 1..n |->
        Row(IF i \in gaps THEN cell ELSE Text("12"),
            Text(IF i % 2 = 1 THEN "Due" ELSE "5 min")) ]

\* Boards around the limit of rows, with rows that name no route before, at
\* and after the limit.
LongBoards ==
    { LongBoard(n, gaps, cell) :
        n \in (RowLimit - 1)..MaxRows,
        gaps \in SUBSET {2, RowLimit, RowLimit + 1},
        cell \in { Null, Text(" ") } }

\* The scraper is configured by its environment, not by the integration.
ServiceConfigs ==
    [ daily_quota : {1},
      reserved_for_manual : {0},
      max_auto_calls : {1},
      bus_routes : { "" },
      notify_service : { "notify.mobile" } ]

InitRows ==
    /\ config \in ServiceConfigs
    /\ Constructed
    /\ app = NotRunning

\* l.264-368 of scrape_lothian_stop: the rows found on the page are read at
\* the clock time `now`.
ExtractRows ==
    /\ normalizer = NotCalled
    /\ \E rows \in BoardPayloads \cup LongBoards, now \in Clocks :
         normalizer' = [call |-> "board", input |-> rows, now |-> now,
                        result |-> board_departures(rows, now)]
    /\ UNCHANGED <<config, today, calls_today, auto_calls_today, last_reset_date, data,
                   pc, source, departures, manual_source, manual_departures,
                   auto_requests, others_today, observed, app>>

NextRows == ExtractRows

\* The reading of the rows alone, on every board of the bounds.
SpecRows == InitRows /\ [][NextRows]_vars

-----------------------------------------------------------------------------
(* The snapshot's traffic delay and commute day, on their own *)

Max(a, b) == IF a > b THEN a ELSE b

\* What hass.states.get(entity) gives: None, or a state with its text and,
\* for a calendar, the "message" attribute of the current event.
NoState == [kind |-> "none", state |-> "", message |-> Missing]

State(text, message) == [kind |-> "state", state |-> text, message |-> message]

\* The result of reading a number: None, or the number.
NoNumber == [kind |-> "none", value |-> 0]

Number(n) == [kind |-> "number", value |-> n]

\* float(text), or None for ValueError: blanks around it stripped, an optional
\* sign, one digit or more (the texts here carry no fraction).
float(cs) ==
    LET t == Strip(cs)
        signed == t # <<>> /\ Head(t) \in {"-", "+"}
        digits == IF signed THEN Tail(t) ELSE t
    IN  IF digits # <<>> /\ \A i \in 1..Len(digits) : IsDigit(digits[i])
        THEN Number(IF signed /\ Head(t) = "-" THEN 0 - DigitsValue(digits)
                    ELSE DigitsValue(digits))
        ELSE NoNumber

\* l.277-285 of _async_update_data: the reading of the travel-time sensor.
waze_minutes(waze_entity, state) ==
    IF waze_entity = "" THEN NoNumber
    ELSE IF state.kind = "state" /\ state.state \notin {"unknown", "unavailable"}
         THEN float(Characters[state.state])
         ELSE NoNumber

\* `waze_minutes or baseline`: None and 0.0 give the baseline.
minutes_or(reading, baseline) ==
    IF reading.kind = "number" /\ reading.value # 0 THEN reading.value ELSE baseline

\* Mutant: the difference is taken as it stands.
traffic_delay_signed(reading, baseline) == minutes_or(reading, baseline) - baseline

\* l.288-289: traffic_delay = max(0, (waze_minutes or baseline) - baseline)
traffic_delay(reading, baseline) == Max(0, minutes_or(reading, baseline) - baseline)

\* [k.strip().lower() for k in text.split(",") if k.strip()], as a set
keywords(text) ==
    LET pieces == SplitCommas(text, <<>>)
    IN  { Lower(Strip(pieces[i])) : i \in { k \in 1..Len(pieces) : Strip(pieces[k]) # <<>> } }

\* (state.attributes.get("message") or "").lower()
event_title(state) ==
    Lower(Characters[IF Truthy(state.message) THEN state.message.text ELSE ""])

\* any(kw in event_title for kw in keywords)
any_keyword(title, text) == \E kw \in keywords(Characters[text]) : Contains(title, kw)

\* Mutant: an office keyword decides alone.
check_commute_day_office_only(calendar_entity, state, office, wfh) ==
    IF calendar_entity = "" THEN TRUE
    ELSE IF state.kind = "none" \/ state.state # "on" THEN FALSE
    ELSE any_keyword(event_title(state), office)

\* _check_commute_day (l.306-324)
check_commute_day(calendar_entity, state, office, wfh) ==
    IF calendar_entity = "" THEN TRUE
    ELSE IF state.kind = "none" \/ state.state # "on" THEN FALSE
    ELSE LET is_wfh == any_keyword(event_title(state), wfh)
             is_office == any_keyword(event_title(state), office)
         IN  is_office /\ ~is_wfh

\* The entity options: not configured (the default "") or an entity id.
WazeEntities == { "", "sensor.waze" }

CalendarEntities == { "", "calendar.work" }

\* The baseline option: its default and another.
Baselines == { 45, 30 }

WazeStates == { NoState } \cup { State(t, Missing) : t \in WazeTexts }

CalendarStates ==
    { NoState }
      \cup { State(s, m) : s \in {"on", "off"},
                           m \in { Text(t) : t \in EventTexts } \cup { Null, Missing } }

InitSnapshot ==
    /\ config \in ServiceConfigs
    /\ Constructed
    /\ app = NotRunning

\* l.276-289 of _async_update_data, for one state of the sensor.
TrafficDelay ==
    /\ normalizer = NotCalled
    /\ \E entity \in WazeEntities, state \in WazeStates, baseline \in Baselines :
         normalizer' = [call |-> "traffic", entity |-> entity, state |-> state,
                        baseline |-> baseline,
                        waze_minutes |-> waze_minutes(entity, state),
                        result |-> traffic_delay(waze_minutes(entity, state), baseline)]
    /\ UNCHANGED <<config, today, calls_today, auto_calls_today, last_reset_date, data,
                   pc, source, departures, manual_source, manual_departures,
                   auto_requests, others_today, observed, app>>

\* _check_commute_day, for one state of the calendar.
CheckCommuteDay ==
    /\ normalizer = NotCalled
    /\ \E entity \in CalendarEntities, state \in CalendarStates,
          office \in OfficeKeywordTexts, wfh \in WfhKeywordTexts :
         normalizer' = [call |-> "commute_day", entity |-> entity, state |-> state,
                        office |-> office, wfh |-> wfh,
                        result |-> check_commute_day(entity, state, office, wfh)]
    /\ UNCHANGED <<config, today, calls_today, auto_calls_today, last_reset_date, data,
                   pc, source, departures, manual_source, manual_departures,
                   auto_requests, others_today, observed, app>>

NextSnapshot ==
    \/ TrafficDelay
    \/ CheckCommuteDay

\* The two computations alone, on every input of the bounds.
SpecSnapshot == InitSnapshot /\ [][NextSnapshot]_vars

-----------------------------------------------------------------------------
(* The scraper microservice: cache, browser manager and request handler *)

Requests == {"r1", "r2"}

\* l.439: stop_code.strip().upper(), for every text a request can carry.
stop_code == [text \in StopTexts |-> Join(Upper(Strip(Characters[text])))]

\* The stops the requests of the bounds name.
Stops == { stop_code[text] : text \in StopTexts } \ { "" }

\* Boards the page of a stop can show while the service is followed: no row,
\* a row without a route, a row of route 12.
ServiceBoards == { <<>>, <<Row(Null, Text("Due"))>>, <<Row(Text("12"), Text("5 min"))>> }

NO_DATA == Text("No departure data found - website structure may have changed")
TIMEOUT == Text("Timeout while fetching stop")
SCRAPE_ERROR == Text("Error scraping stop")

\* How the try block of scrape_lothian_stop can end (l.174-385).
PageOutcomes == {"done", "timeout", "error"}

\* How get_browser's launch can end (l.126-137): both awaits succeed, or
\* async_playwright().start() raises, or chromium.launch raises.
LaunchOutcomes == {"ok", "start_failed", "launch_failed"}

\* l.389-396: the StopDepartures scrape_lothian_stop builds.  `object` tells
\* the objects apart: the one built here from a copy of it.
StopDepartures(stop, deps, error) ==
    [stop_code |-> stop, departures |-> deps, error |-> error, cached |-> FALSE,
     object |-> "scraped"]

\* Mutant: a result without departures is returned without an error.
scrape_result_unchecked(stop, outcome, rows, now) ==
    CASE outcome = "timeout" -> StopDepartures(stop, <<>>, TIMEOUT)
      [] outcome = "error" -> StopDepartures(stop, <<>>, SCRAPE_ERROR)
      [] OTHER -> StopDepartures(stop, board_departures(rows, now), Null)

\* l.170-172 and l.264-385: departures and error as the try block leaves
\* them.  An exception comes before any row is appended: once a row is
\* appended nothing of the block is left to run (l.371).
scrape_result(stop, outcome, rows, now) ==
    CASE outcome = "timeout" -> StopDepartures(stop, <<>>, TIMEOUT)
      [] outcome = "error" -> StopDepartures(stop, <<>>, SCRAPE_ERROR)
      [] OTHER -> LET deps == board_departures(rows, now)
                  IN  StopDepartures(stop, deps, IF deps = <<>> THEN NO_DATA ELSE Null)

NoEntry == [expires_at |-> -1]

CacheEntry(payload, expires_at) == [data |-> payload, expires_at |-> expires_at]

\* Mutant: the stored object itself is handed out.
model_copy_same_object(payload) == payload

\* l.88: entry.data.model_copy(), a new object with the same fields.
model_copy(payload) == [payload EXCEPT !.object = "copy"]

\* Mutant: an entry is still returned at the moment it expires.
cache_get_at_expiry(c, key, now) ==
    IF c[key] = NoEntry THEN [cache |-> c, found |-> FALSE]
    ELSE IF now <= c[key].expires_at
    THEN [cache |-> c, found |-> TRUE,
          result |-> [model_copy(c[key].data) EXCEPT !.cached = TRUE]]
    ELSE [cache |-> [c EXCEPT ![key] = NoEntry], found |-> FALSE]

\* SimpleCache.get (l.82-94): the cache it leaves and what it returns.
\* `result.cached = True` (l.89) writes to the object `result` names, which
\* is the stored one if model_copy returned that.
cache_get(c, key, now) ==
    IF c[key] = NoEntry THEN [cache |-> c, found |-> FALSE]
    ELSE IF now < c[key].expires_at
    THEN LET result == model_copy(c[key].data)
         IN  [cache |-> IF result.object = c[key].data.object
                        THEN [c EXCEPT ![key].data.cached = TRUE]
                        ELSE c,
              found |-> TRUE,
              result |-> [result EXCEPT !.cached = TRUE]]
    ELSE [cache |-> [c EXCEPT ![key] = NoEntry], found |-> FALSE]

\* SimpleCache.set (l.96-102)
cache_set(c, key, payload, now) ==
    [c EXCEPT ![key] = CacheEntry(payload, now + CACHE_TTL_SECONDS)]

\* A request that is not being handled, and its locals once it is:
\*   pc      "lock"      waiting for the browser manager's lock (l.123)
\*           "launch"    inside get_browser, at the awaits of l.126-137
\*           "new_page"  at `await browser.new_page()` (l.168)
\*           "page"      inside the try block (l.174-385)
\*           "closing"   at `await page.close()` (l.387)
\*   stop    the normalized stop code
\*   browser the session get_browser returned (0: none yet)
\*   result  departures and error as the try block left them
\*   before_clear  history: the cache was cleared since the request began
NoResult == [stop_code |-> ""]

IdleRequest ==
    [pc |-> "idle", stop |-> "", browser |-> 0, result |-> NoResult, before_clear |-> FALSE]

\* What the last step answered a request:
\*   "bad_request"  HTTPException 400 (l.442)
\*   "hit"          the copy the cache returned (l.447)
\*   "fresh"        the result of a scrape (l.456)
\*   "raised"       an exception left get_stop_departures
NoReply == [to |-> "nobody", kind |-> "none", stop |-> "", data |-> NoResult]

Reply(p, kind, stop, payload) == [to |-> p, kind |-> kind, stop |-> stop, data |-> payload]

\* The service before its startup event.
\*   phase       "startup", "serving", "shutdown"
\*   clock       datetime.now()
\*   cache       cache._cache, NoEntry for a key it does not hold
\*   browser     browser_manager._browser (0: None)
\*   playwright  browser_manager._playwright is set
\*   lock        who holds browser_manager._lock
\*   connected   the browser sessions that are connected
\*   launched    the number of sessions launched so far
\*   pages       the requests whose page is open
\*   closer      where shutdown_event's close() stands
\*   req         the requests
\*   reply       what the last step answered
\*   negative    history: per stop the last result with an error that was
\*               stored and the end of its time to live, until a clear
\*   stale       history: the stops whose entry was stored by a request that
\*               began before the last clear
Started ==
    [phase |-> "startup", clock |-> 0, cache |-> [s \in Stops |-> NoEntry],
     browser |-> 0, playwright |-> FALSE, lock |-> "free", connected |-> {},
     launched |-> 0, pages |-> {}, closer |-> "idle",
     req |-> [p \in Requests |-> IdleRequest], reply |-> NoReply,
     negative |-> [s \in Stops |-> NoEntry], stale |-> {}]

InitService ==
    /\ config \in ServiceConfigs
    /\ Constructed
    /\ app = Started

CoordinatorUnchanged ==
    UNCHANGED <<config, today, calls_today, auto_calls_today, last_reset_date, data,
                pc, source, departures, manual_source, manual_departures,
                auto_requests, others_today, normalizer, observed>>

\* Mutant: get_browser does not take the lock.
lock_free_unguarded(a) == TRUE

\* `async with self._lock` (l.123, l.141) enters when nobody holds the lock.
lock_free(a) == a.lock = "free"

\* l.124: the manager holds a browser and it is connected.
browser_usable(a) == a.browser # 0 /\ a.browser \in a.connected

\* get_browser (l.122-138) as far as it runs without waiting, for request p
\* in the service a: it waits for the lock, or returns the browser the
\* manager holds, or takes the lock and starts a launch.
enter_get_browser(a, p, stop) ==
    IF ~lock_free(a)
    THEN [a EXCEPT !.req[p] = [a.req[p] EXCEPT !.pc = "lock", !.stop = stop]]
    ELSE IF browser_usable(a)
    THEN [a EXCEPT !.req[p] = [a.req[p] EXCEPT !.pc = "new_page", !.stop = stop,
                                                  !.browser = a.browser]]
    ELSE [a EXCEPT !.lock = p,
                   !.req[p] = [a.req[p] EXCEPT !.pc = "launch", !.stop = stop]]

\* Mutant: the lock is kept when the block is left.
release_kept(a) == a

\* The `async with self._lock` block is left (l.123-138): the lock is free
\* again, also when an exception leaves the block.
release(a) == [a EXCEPT !.lock = "free"]

\* The manager after the launch of l.126-137 ended with `outcome`.
launch(a, outcome) ==
    CASE outcome = "ok" ->
            [a EXCEPT !.playwright = TRUE, !.launched = @ + 1,
                      !.browser = a.launched + 1,
                      !.connected = @ \cup {a.launched + 1}]
      [] outcome = "launch_failed" -> [a EXCEPT !.playwright = TRUE]
      [] OTHER -> a

\* startup_event (l.470-479): the browser is launched ahead of the first
\* request; a failure is logged.  No request is served before it returns.
Startup(outcome) ==
    /\ app.phase = "startup"
    /\ outcome \in LaunchOutcomes
    /\ app' = [launch(app, outcome) EXCEPT !.phase = "serving", !.reply = NoReply]
    /\ CoordinatorUnchanged

\* get_stop_departures (l.428-451) up to its first wait: the stop code is
\* normalized, the cache is asked, and on a miss scrape_lothian_stop calls
\* get_browser.  The cache's lock is never held across an await, so get, set
\* and clear never wait for it.
Arrive(p, text) ==
    /\ app.phase = "serving"
    /\ app.req[p].pc = "idle"
    /\ text \in StopTexts
    /\ LET stop == stop_code[text]
       IN  IF stop = ""
           THEN app' = [app EXCEPT !.reply = Reply(p, "bad_request", stop, NoResult)]
           ELSE LET got == cache_get(app.cache, stop, app.clock)
                    a == [app EXCEPT !.cache = got.cache]
                IN  IF got.found
                    THEN app' = [a EXCEPT !.reply = Reply(p, "hit", stop, got.result)]
                    ELSE app' = [enter_get_browser(a, p, stop) EXCEPT !.reply = NoReply]
    /\ CoordinatorUnchanged

\* get_browser gets the lock it waited for (l.123-124).
LockAcquired(p) ==
    /\ app.req[p].pc = "lock"
    /\ lock_free(app)
    /\ app' = [enter_get_browser(app, p, app.req[p].stop) EXCEPT !.reply = NoReply]
    /\ CoordinatorUnchanged

\* The launch of l.126-137 ends.  Its exception leaves get_browser,
\* scrape_lothian_stop (l.167 stands before the try) and the handler.
Launched(p, outcome) ==
    /\ app.req[p].pc = "launch"
    /\ outcome \in LaunchOutcomes
    /\ outcome = "ok" => app.launched < MaxLaunches
    /\ LET a == release(launch(app, outcome))
       IN  IF outcome = "ok"
           THEN app' = [a EXCEPT !.req[p].pc = "new_page", !.req[p].browser = a.browser,
                                 !.reply = NoReply]
           ELSE app' = [a EXCEPT !.req[p] = IdleRequest,
                                 !.reply = Reply(p, "raised", app.req[p].stop, NoResult)]
    /\ CoordinatorUnchanged

\* `await browser.new_page()` (l.168) ends: a browser that has lost its
\* connection opens no page, and the exception leaves the handler.
NewPage(p) ==
    /\ app.req[p].pc = "new_page"
    /\ IF app.req[p].browser \in app.connected
       THEN app' = [app EXCEPT !.pages = @ \cup {p}, !.req[p].pc = "page",
                               !.reply = NoReply]
       ELSE app' = [app EXCEPT !.req[p] = IdleRequest,
                               !.reply = Reply(p, "raised", app.req[p].stop, NoResult)]
    /\ CoordinatorUnchanged

\* The try block (l.174-385) ends: with the rows of the page read, with a
\* timeout or with another exception.  On a browser that has lost its
\* connection every call of the page raises.  The clock counts minutes.
PageWork(p, outcome, rows) ==
    /\ app.req[p].pc = "page"
    /\ outcome \in PageOutcomes
    /\ rows \in (IF outcome = "done" THEN ServiceBoards ELSE {<<>>})
    /\ app.req[p].browser \notin app.connected => outcome = "error"
    /\ app' = [app EXCEPT !.req[p].pc = "closing",
                          !.req[p].result =
                              scrape_result(app.req[p].stop, outcome, rows,
                                            [minute |-> app.clock, second |-> 0]),
                          !.reply = NoReply]
    /\ CoordinatorUnchanged

\* Mutant: the page is left open.
page_close_left_open(pages, p) == pages

\* l.387: page.close()
page_close(pages, p) == pages \ {p}

\* `await page.close()` (l.387) ends, scrape_lothian_stop returns its result
\* (l.389-396) and the handler stores and returns it (l.454-456).
PageClosed(p, track) ==
    /\ app.req[p].pc = "closing"
    /\ LET result == app.req[p].result
           stop == app.req[p].stop
           stored == cache_set(app.cache, stop, result, app.clock)
       IN  app' = [app EXCEPT !.pages = page_close(@, p),
                              !.cache = stored,
                              !.negative[stop] =
                                  IF track /\ Truthy(result.error) THEN stored[stop]
                                  ELSE @,
                              !.stale =
                                  IF ~track THEN @
                                  ELSE IF app.req[p].before_clear THEN @ \cup {stop}
                                  ELSE @ \ {stop},
                              !.req[p] = IdleRequest,
                              !.reply = Reply(p, "fresh", stop, result)]
    /\ CoordinatorUnchanged

\* clear_cache (l.459-463)
ClearCache(track) ==
    /\ app.phase = "serving"
    /\ app' = [app EXCEPT !.cache = [s \in Stops |-> NoEntry],
                          !.negative = [s \in Stops |-> NoEntry],
                          !.stale = {},
                          !.req = [p \in Requests |->
                                     [@[p] EXCEPT !.before_clear =
                                                     track /\ app.req[p].pc # "idle"]],
                          !.reply = NoReply]
    /\ CoordinatorUnchanged

\* Time passes.
ServiceTick ==
    /\ app.phase # "startup"
    /\ app.clock < MaxClock
    /\ app' = [app EXCEPT !.clock = @ + 1, !.reply = NoReply]
    /\ CoordinatorUnchanged

\* A browser session loses its connection (the browser crashes); its pages
\* are gone with it.
Disconnect(b) ==
    /\ b \in app.connected
    /\ app' = [app EXCEPT !.connected = @ \ {b},
                          !.pages = { p \in @ : app.req[p].browser # b },
                          !.reply = NoReply]
    /\ CoordinatorUnchanged

\* shutdown_event (l.482-486) calls close(), which asks for the lock; no
\* request arrives any more, the ones in flight go on.
Shutdown ==
    /\ app.phase = "serving"
    /\ app' = [app EXCEPT !.phase = "shutdown", !.closer = "lock", !.reply = NoReply]
    /\ CoordinatorUnchanged

\* close() gets the lock (l.141) and waits for browser.close() and
\* playwright.stop().
CloseLocked ==
    /\ app.closer = "lock"
    /\ lock_free(app)
    /\ app' = [app EXCEPT !.lock = "shutdown", !.closer = "closing", !.reply = NoReply]
    /\ CoordinatorUnchanged

\* close() ends (l.142-148).
Closed ==
    /\ app.closer = "closing"
    /\ app' = [app EXCEPT !.connected = @ \ {app.browser},
                          !.pages = { p \in @ : app.browser = 0
                                                \/ app.req[p].browser # app.browser },
                          !.browser = 0, !.playwright = FALSE,
                          !.lock = "free", !.closer = "done", !.reply = NoReply]
    /\ CoordinatorUnchanged

\* The steps of the requests, of the cache and of the clock: the requests
\* carry the stop texts `texts`, a launch ends in one of `outcomes`.
ServiceSteps(texts, outcomes, track) ==
    \/ \E outcome \in outcomes : Startup(outcome)
    \/ \E p \in Requests : \E text \in texts : Arrive(p, text)
    \/ \E p \in Requests : LockAcquired(p)
    \/ \E p \in Requests : \E outcome \in outcomes : Launched(p, outcome)
    \/ \E p \in Requests : NewPage(p)
    \/ \E p \in Requests : \E outcome \in PageOutcomes :
       \E rows \in (IF outcome = "done" THEN ServiceBoards ELSE {<<>>}) :
          PageWork(p, outcome, rows)
    \/ \E p \in Requests : PageClosed(p, track)
    \/ ClearCache(track)
    \/ ServiceTick

\* The requests of one stop, written in two ways, and a request without a stop.
OneStopTexts == { "a", "A ", "" }

\* The service with everything that can happen to its browser: its launch
\* fails, its session loses the connection, the service shuts down.
NextService ==
    \/ ServiceSteps(OneStopTexts, LaunchOutcomes, FALSE)
    \/ \E b \in 1..MaxLaunches : Disconnect(b)
    \/ Shutdown
    \/ CloseLocked
    \/ Closed

SpecService == InitService /\ [][NextService]_vars

\* The service with requests of two stops, while its browser, once launched,
\* stays connected.
NextCache == ServiceSteps(StopTexts, {"ok", "start_failed"}, FALSE)

SpecCache == InitService /\ [][NextCache]_vars

\* As NextCache for one stop, with the history of the stored errors and of
\* the clears.
NextNegative == ServiceSteps(OneStopTexts, {"ok", "start_failed"}, TRUE)

SpecNegative == InitService /\ [][NextNegative]_vars

-----------------------------------------------------------------------------
(* The two programs under fair scheduling *)

\* The configuration with the largest quota, reservation and auto-call cap:
\* how a cycle is admitted has no part in how its awaits end.
LiveConfigs ==
    { cfg \in Configs : /\ cfg.daily_quota = MaxQuota
                        /\ cfg.reserved_for_manual = MaxReserved
                        /\ cfg.max_auto_calls = MaxAuto }

\* Either program is followed: the coordinator, or the scraper service.
InitLive ==
    \/ /\ config \in LiveConfigs
       /\ Constructed
       /\ app = NotRunning
    \/ InitService

\* The await a caller of the coordinator is suspended at ends: the request is
\* answered or fails or runs into its timeout (l.136, l.160), the notify
\* service call returns or raises.
CycleProgress(p) ==
    /\ app = NotRunning
    /\ pc[p] # "idle"
    /\ \/ \E outcome \in HttpOutcomes :
          \E body \in (IF outcome = "ok" THEN PrimaryBodies ELSE {<<>>}) :
             \/ UpdatePrimaryResponse(p, outcome, body, FALSE)
             \/ ManualPrimaryResponse(p, outcome, body, FALSE)
       \/ \E outcome \in HttpOutcomes :
          \E body \in (IF outcome = "ok" THEN ScraperBodies ELSE {<<>>}) :
             \/ UpdateScraperResponse(p, outcome, body)
             \/ ManualScraperResponse(p, outcome, body)
       \/ \E outcome \in NotifyOutcomes : NotifyDone(p, outcome)
    /\ History(FALSE, FALSE, FALSE, NoAnswer)

\* The await a request of the service is suspended at ends, the wait for the
\* lock aside: the launch, the new page, the navigation and the waits of the
\* try block (each with its timeout or an exception), the closing of the page.
RequestProgress(r) ==
    /\ app # NotRunning
    /\ app.req[r].pc \notin {"idle", "lock"}
    /\ \/ \E outcome \in LaunchOutcomes : Launched(r, outcome)
       \/ NewPage(r)
       \/ \E outcome \in PageOutcomes :
          \E rows \in (IF outcome = "done" THEN ServiceBoards ELSE {<<>>}) :
             PageWork(r, outcome, rows)
       \/ PageClosed(r, FALSE)

\* The steps of either program, the clock standing still: no step of a cycle
\* or of a request waits for the clock, the timeouts of the awaits being among
\* the ways they end.
NextLive ==
    \/ /\ app = NotRunning
       /\ TimerStart
       /\ History(FALSE, FALSE, FALSE, NoAnswer)
    \/ /\ app = NotRunning
       /\ ManualStart("manual")
       /\ History(FALSE, FALSE, FALSE, NoAnswer)
    \/ /\ app = NotRunning
       /\ ResetCounters("reset")
       /\ History(FALSE, FALSE, FALSE, NoAnswer)
    \/ \E p \in Procs : CycleProgress(p)
    \/ /\ app # NotRunning
       /\ \/ \E outcome \in LaunchOutcomes : Startup(outcome)
          \/ \E r \in Requests : \E text \in OneStopTexts : Arrive(r, text)
          \/ \E r \in Requests : LockAcquired(r)
          \/ ClearCache(FALSE)
          \/ \E b \in 1..MaxLaunches : Disconnect(b)
          \/ Shutdown
          \/ CloseLocked
          \/ Closed
    \/ \E r \in Requests : RequestProgress(r)

\* The event loop runs every coroutine whose await has ended, and
\* asyncio.Lock wakes its waiters in the order they came: who waits for the
\* lock gets it once it has been free often enough.
Fairness ==
    /\ \A p \in Procs : WF_vars(CycleProgress(p))
    /\ \A r \in Requests : WF_vars(RequestProgress(r))
    /\ \A r \in Requests : SF_vars(app # NotRunning /\ LockAcquired(r))
    /\ WF_vars(app # NotRunning /\ Closed)

SpecLive == InitLive /\ [][NextLive]_vars /\ Fairness

-----------------------------------------------------------------------------
(* Properties *)

UpdatePcs == {"primary", "primary_exit", "scraper"}

ManualPcs == {"m_primary", "m_primary_exit", "m_scraper"}

\* A caller enters _async_update_data in this step.
EntersUpdate(p) == pc[p] \notin UpdatePcs /\ pc'[p] \in UpdatePcs

\* A caller enters the fetch of async_manual_refresh in this step.
EntersManual(p) == pc[p] = "idle" /\ pc'[p] \in {"m_primary", "m_scraper"}

\* C1: within one calendar day calls_today never exceeds daily_quota, for any
\* interleaving of timer refreshes and manual refreshes on one coordinator.
C1_QuotaNeverExceeded == calls_today <= config.daily_quota

\* C2: the automatic admission is refused exactly when, after the daily-reset
\* check, calls_today >= daily_quota - reserved_for_manual or
\* auto_calls_today >= max_auto_calls: a caller entering _async_update_data
\* goes to the scraper without a primary request exactly then.
C2_AutoAdmission ==
    [][\A p \in Procs :
         EntersUpdate(p) =>
           (pc'[p] = "scraper" <=>
              \/ calls_today' >= config.daily_quota - config.reserved_for_manual
              \/ auto_calls_today' >= config.max_auto_calls)]_vars

\* C2 witness: the timer was sent to the scraper by the auto-call cap alone.
C2_Witness ==
    /\ pc["timer"] = "scraper"
    /\ source["timer"] = SOURCE_NONE
    /\ pc["manual"] = "idle" /\ pc["reset"] = "idle"
    /\ auto_calls_today >= config.max_auto_calls
    /\ calls_today < config.daily_quota - config.reserved_for_manual

\* C3: the manual admission is refused if and only if calls_today >=
\* daily_quota after the daily-reset check, whatever auto_calls_today,
\* reserved_for_manual and max_auto_calls are.
C3_ManualAdmission ==
    [][\A p \in Procs :
         EntersManual(p) =>
           (pc'[p] = "m_scraper" <=> calls_today' >= config.daily_quota)]_vars

\* C3 witness: a manual fetch is admitted while the automatic admission is
\* refused both by the reservation and by the auto-call cap.
C3_Witness ==
    /\ pc["manual"] = "m_primary"
    /\ pc["timer"] = "idle" /\ pc["reset"] = "idle"
    /\ calls_today >= config.daily_quota - config.reserved_for_manual
    /\ auto_calls_today >= config.max_auto_calls

\* C4: on a day on which only timer refreshes have run, with
\* reserved_for_manual >= 1 and daily_quota >= reserved_for_manual, calls_today
\* (as its property reads it) is at most daily_quota - reserved_for_manual and
\* can_call_api_manual() is true.
C4_ManualNeverStarved ==
    ( /\ config.reserved_for_manual >= 1
      /\ config.daily_quota >= config.reserved_for_manual
      /\ ~others_today )
    => LET l == check_daily_reset(Ledger, today)
       IN  /\ l.calls <= config.daily_quota - config.reserved_for_manual
           /\ can_call_api_manual(l, config)

\* C4 witness: the timer alone has used up its whole share of the day.
C4_Witness ==
    /\ ~others_today
    /\ config.reserved_for_manual >= 1
    /\ config.daily_quota > config.reserved_for_manual
    /\ last_reset_date = today
    /\ calls_today = config.daily_quota - config.reserved_for_manual

\* C5: within one calendar day _async_update_data sends at most
\* max_auto_calls requests to the primary API, whatever the API answers.
C5_AutoRequestsCapped == auto_requests <= config.max_auto_calls

\* C6: a manual refresh leaves auto_calls_today as it found it: no step of
\* async_manual_refresh raises it.
C6_ManualLeavesAutoCalls ==
    [][pc'["manual"] # pc["manual"] => auto_calls_today' <= auto_calls_today]_vars

\* C7: when the fetch of a manual refresh got at least one allowed departure
\* from the primary API, the snapshot the refresh publishes (and notifies
\* from) has source TransportAPI.
C7_ManualPublishesPrimary ==
    [][( /\ pc["manual"] \in UpdatePcs
         /\ pc'["manual"] \notin UpdatePcs
         /\ manual_source["manual"] = SOURCE_TRANSPORTAPI
         /\ manual_departures["manual"] # <<>> )
       => data'.source = SOURCE_TRANSPORTAPI]_vars

AccessStep ==
    \/ pc["timer"] = "idle" /\ pc'["timer"] # "idle"
    \/ pc["manual"] = "idle" /\ pc'["manual"] # "idle"
    \/ pc' = pc /\ today' = today

\* C9: _check_daily_reset zeroes both counters together and records today
\* exactly when the stored date is absent or differs from today; an access on
\* the recorded date changes neither the counters nor the date, so the rollover
\* reset happens once per date, at the first access.
C9_DailyReset ==
    [][/\ last_reset_date' # last_reset_date
          => /\ last_reset_date' = today
             /\ calls_today' = 0
             /\ auto_calls_today' = 0
       /\ AccessStep
          => IF last_reset_date = NoDate \/ last_reset_date # today
             THEN /\ last_reset_date' = today
                  /\ calls_today' = 0
                  /\ auto_calls_today' = 0
             ELSE UNCHANGED <<calls_today, auto_calls_today, last_reset_date>>]_vars

\* C9 witness: on the second date, with only the timer and reads having run,
\* the new date is recorded and the count of the held primary snapshot is gone.
C9_Witness ==
    /\ today = 1
    /\ ~others_today
    /\ last_reset_date = today
    /\ data.source = SOURCE_TRANSPORTAPI
    /\ calls_today = 0

\* C10: in every fetch the scraper is requested only once the primary attempt
\* is over and has left no departures, and it is requested whenever the primary
\* was skipped, failed or left no departures: a fetch whose primary request
\* ends without a scraper request has got departures from the primary API.
C10_FallbackIff ==
    [][\A p \in Procs :
         /\ pc'[p] \in {"scraper", "m_scraper"} => departures'[p] = <<>>
         /\ (pc[p] = "primary" /\ pc'[p] \notin UpdatePcs)
            => /\ calls_today' = calls_today + 1
               /\ data'.source = SOURCE_TRANSPORTAPI
               /\ data'.departures # <<>>
         /\ (pc[p] = "m_primary" /\ pc'[p] \notin {"m_primary", "m_scraper"})
            => /\ manual_source'[p] = SOURCE_TRANSPORTAPI
               /\ manual_departures'[p] # <<>>]_vars

\* C11: in every snapshot a fetch cycle produces, an empty departure list comes
\* with source None, also when the route allow-list has filtered out every
\* departure the primary API or the scraper returned.
C11_EmptyImpliesNone == data.departures = <<>> => data.source = SOURCE_NONE

\* d departs no later than any departure of the list.
Earliest(d, list) == \A i \in 1..Len(list) : d.due_mins <= list[i].due_mins

\* C12: an automatic cycle that is denied admission makes no request to the
\* primary API and leaves both counters as the daily-reset check left them;
\* when its scraper request is answered with departures of allowed routes, the
\* snapshot has source "Lothian Scrape" and its first departure (next_bus) is
\* the earliest of them.
C12_DeniedCycleUsesScraper ==
    [][\A p \in Procs :
         /\ ( /\ EntersUpdate(p)
              /\ ~can_call_api_auto([calls |-> calls_today', auto |-> auto_calls_today',
                                     last |-> last_reset_date'], config) )
            => /\ pc'[p] = "scraper"
               /\ p \in observed'.skipped
               /\ p = "timer" =>
                     LET l == check_daily_reset(Ledger, today)
                     IN  calls_today' = l.calls /\ auto_calls_today' = l.auto
         /\ (p \in observed.skipped /\ pc'[p] # pc[p])
            => /\ pc'[p] # "primary"
               /\ UNCHANGED <<calls_today, auto_calls_today>>
               /\ LET a == observed'.answer
                      allowed == SelectSeq(a.body,
                                           LAMBDA d : InAllowlist(d, route_allowlist(config)))
                  IN  (a.outcome = "ok" /\ allowed # <<>>)
                      => /\ data'.source = SOURCE_SCRAPER
                         /\ data'.departures # <<>>
                         /\ \E i \in 1..Len(allowed) : data'.departures[1] = allowed[i]
                         /\ Earliest(data'.departures[1], allowed)]_vars

\* C13: a timeout of the primary request is a normal failure: the fetch goes
\* on to request the scraper (and so to a snapshot) instead of being aborted.
C13_TimeoutFallsBack ==
    [][\A p \in Procs :
         LET a == observed'.answer
         IN  (a.to = p /\ a.service = "primary" /\ a.outcome = "timeout")
             => /\ pc[p] = "primary" => pc'[p] = "scraper"
                /\ pc[p] = "m_primary" => pc'[p] = "m_scraper"]_vars

\* C14: no failed request ends a fetch with an error.  After a failed primary
\* request the scraper is requested; after a failed scraper request an
\* automatic cycle returns what it holds (at worst no departures, source None)
\* as the new snapshot, and a manual fetch goes on to its refresh.
C14_NoFailureEscapes ==
    [][\A p \in Procs :
         LET a == observed'.answer
         IN  (a.to = p /\ a.outcome \in HttpOutcomes \ {"ok"})
             => /\ pc[p] = "primary" => pc'[p] = "scraper"
                /\ pc[p] = "m_primary" => pc'[p] = "m_scraper"
                /\ pc[p] = "scraper"
                   => /\ pc'[p] \notin UpdatePcs
                      /\ data' = [source |-> source[p], departures |-> departures[p]]
                /\ pc[p] = "m_scraper"
                   => /\ pc'[p] \in UpdatePcs
                      /\ manual_source'[p] = source[p]
                      /\ manual_departures'[p] = departures[p]]_vars

\* A normalizer has been called on its own, and normalizer.result is what it
\* returned.
Normalized == normalizer.call \in {"scraper", "transportapi"}

\* C15: the list a normalizer returns is ascending by due_mins wherever
\* due_mins is present, 0 included, so that its first record (next_bus) has
\* the least due_mins present.
C15_SortedAscending ==
    Normalized =>
      LET r == normalizer.result
      IN  \A i, j \in 1..Len(r) :
            (i < j /\ r[i].due_mins # Absent /\ r[j].due_mins # Absent)
            => r[i].due_mins <= r[j].due_mins

\* C17: sorting is idempotent: the normalizer's sort applied to a list a
\* normalizer returned gives that list again.
C17_SortIdempotent == Normalized => SortByDue(normalizer.result) = normalizer.result

\* C17 witness: the sort has exchanged the two departures it was given.
C17_Witness ==
    /\ normalizer.call = "scraper"
    /\ Len(normalizer.input) = 2
    /\ Len(normalizer.result) = 2
    /\ normalizer.result[1] = normalizer.input[2]
    /\ normalizer.result[2] = normalizer.input[1]
    /\ normalizer.result[1].due_mins < normalizer.result[2].due_mins

\* C16: in the list a normalizer returns, a record without due_mins comes
\* after every record that has one, whatever its value (0 to 1439).
C16_AbsentLast ==
    Normalized =>
      LET r == normalizer.result
      IN  \A i, j \in 1..Len(r) :
            (i < j /\ r[i].due_mins = Absent) => r[j].due_mins = Absent

\* The routes each allow-list text names, read by hand: comma-separated,
\* entries trimmed, empty entries ignored.
NamedRoutes ==
    [ text \in BusRouteTexts |->
        CASE text = "12" -> {"12"}
          [] text = "" -> {}
          [] text = " 12 , ,X4" -> {"12", "X4"}
          [] text = "X4," -> {"X4"} ]

\* The lists a and b hold the same elements, each as often.
SameElements(a, b) ==
    /\ Len(a) = Len(b)
    /\ \A i \in 1..Len(a) :
         Cardinality({ k \in 1..Len(a) : a[k] = a[i] })
           = Cardinality({ k \in 1..Len(b) : b[k] = a[i] })

\* C18: with a non-empty allow-list a normalizer returns exactly the input
\* departures whose route the list names, and with an empty allow-list it
\* returns every input departure.
C18_RouteFilter ==
    Normalized =>
      LET routes == NamedRoutes[config.bus_routes]
          wanted == SelectSeq(normalizer.input,
                              LAMBDA d : routes = {} \/ d.route \in routes)
      IN  SameElements(normalizer.result,
                       IF normalizer.call = "scraper" THEN wanted
                       ELSE transportapi_records(wanted, normalizer.now))

\* C18 witness: under the allow-list "X4," the primary normalizer was given a
\* departure of route 12 and one of route X4 and has returned the second.
C18_Witness ==
    /\ normalizer.call = "transportapi"
    /\ config.bus_routes = "X4,"
    /\ Len(normalizer.input) = 2
    /\ normalizer.input[1].route = "12"
    /\ normalizer.input[2].route = "X4"
    /\ Len(normalizer.result) = 1
    /\ normalizer.result[1].route = "X4"

\* No clock time.
NoTime == [hour |-> 24, minute |-> 0]

\* The clock time each time text names, read by hand.
ClockTime ==
    [ text \in TimeTexts |->
        CASE text = "08:05" -> [hour |-> 8, minute |-> 5]
          [] text = "8:05" -> [hour |-> 8, minute |-> 5]
          [] text = "08:10" -> [hour |-> 8, minute |-> 10]
          [] text = "00:05" -> [hour |-> 0, minute |-> 5]
          [] text = "23:55" -> [hour |-> 23, minute |-> 55]
          [] OTHER -> NoTime ]

MinuteOfDay(t) == MinutesPerHour * t.hour + t.minute

\* The whole minutes from the clock time `now` to the next occurrence of the
\* clock time t, the current minute counting as now.
MinutesUntil(t, now) ==
    LET ahead == (MinuteOfDay(t) - now.minute) % (SecondsPerDay \div SecondsPerMinute)
    IN  IF ahead = 0 THEN 0
        ELSE (SecondsPerMinute * ahead - now.second) \div SecondsPerMinute

\* The primary normalizer was called with one departure and has returned it.
OneDeparture ==
    /\ normalizer.call = "transportapi"
    /\ Len(normalizer.input) = 1
    /\ Len(normalizer.result) = 1

\* C19: for every departure time that parses as HH:MM and every clock time of
\* the call, due_mins is not negative and is the whole minutes until the next
\* occurrence of that time: a time already past rolls to the next day, a time
\* in the current minute gives 0.
C19_DueMinutes ==
    OneDeparture =>
      LET best == best_estimate(normalizer.input[1].dep)
      IN  (Truthy(best) /\ ClockTime[best.text] # NoTime)
          => /\ normalizer.result[1].due_mins >= 0
             /\ normalizer.result[1].due_mins
                  = MinutesUntil(ClockTime[best.text], normalizer.now)

\* C20: the status of a primary departure is "Late" exactly when its aimed
\* and its expected time are both present and the expected one is the later,
\* "Early" exactly when both are present and the expected one is the earlier,
\* and "On time" or "Scheduled" otherwise.
C20_StatusClassification ==
    OneDeparture =>
      LET dep == normalizer.input[1].dep
          aimed == dep.aimed_departure_time
          expected == dep.expected_departure_time
          both == /\ Truthy(aimed) /\ Truthy(expected)
                  /\ ClockTime[aimed.text] # NoTime /\ ClockTime[expected.text] # NoTime
          later == both /\ MinuteOfDay(ClockTime[expected.text])
                             > MinuteOfDay(ClockTime[aimed.text])
          earlier == both /\ MinuteOfDay(ClockTime[expected.text])
                               < MinuteOfDay(ClockTime[aimed.text])
          status == normalizer.result[1].status
      IN  /\ status = "Late" <=> later
          /\ status = "Early" <=> earlier
          /\ status \in {"Late", "Early", "On time", "Scheduled"}

\* C20 witness: a departure aimed at 08:10 and expected at 08:05 has been
\* given the status "Early".
C20_Witness ==
    /\ OneDeparture
    /\ normalizer.input[1].dep.aimed_departure_time = Text("08:10")
    /\ normalizer.input[1].dep.expected_departure_time = Text("08:05")
    /\ normalizer.result[1].status = "Early"

\* C21: is_realtime of a primary departure is true exactly when the answer
\* carries a non-empty expected time that differs from the aimed time; it is
\* false when the expected time is missing, null, empty or the aimed time.
C21_RealtimeFlag ==
    OneDeparture =>
      LET dep == normalizer.input[1].dep
      IN  normalizer.result[1].is_realtime
            <=> /\ Truthy(dep.expected_departure_time)
                /\ dep.expected_departure_time # dep.aimed_departure_time

\* The time cells that are missing or show none of the shapes "due"/"now",
\* "N min" and HH:MM, read by hand.
UnrecognizedTimes == { Null, Text(" "), Text("Cancelled") }

\* C30: a board row that names its route and whose time text is missing or of
\* no recognized shape is emitted, and emitted without a due time, never with
\* a number.
C30_UnrecognizedTimeAbsent ==
    ( /\ normalizer.call = "board"
      /\ Len(normalizer.input) = 1
      /\ normalizer.input[1].route = Text("12")
      /\ normalizer.input[1].time \in UnrecognizedTimes )
    => /\ Len(normalizer.result) = 1
       /\ normalizer.result[1].due_mins = Absent

\* The step is request p asking the cache for stop s: p's handler starts and
\* is answered from the cache, or goes on to scrape.
Gets(p, s) ==
    /\ app.req[p].pc = "idle"
    /\ \/ app'.reply = Reply(p, "hit", s, app'.reply.data)
       \/ app'.req[p].pc # "idle" /\ app'.req[p].stop = s

\* The payloads a and b carry the same stop, departures and error.
SamePayload(a, b) ==
    /\ a.stop_code = b.stop_code
    /\ a.departures = b.departures
    /\ a.error = b.error

\* C22: a get of a key whose entry has not expired (now < expires_at) returns
\* the payload of that entry flagged as cached and leaves the entry; a get at
\* or after expires_at returns nothing and removes the entry; no get returns
\* an expired entry.
C22_CacheTtl ==
    [][ \A p \in Requests : \A s \in Stops :
          Gets(p, s) =>
            LET e == app.cache[s]
                live == e # NoEntry /\ app.clock < e.expires_at
            IN  /\ live => /\ app'.reply.kind = "hit"
                           /\ app'.reply.to = p
                           /\ app'.reply.data.cached
                           /\ SamePayload(app'.reply.data, e.data)
                           /\ app'.cache[s] = e
                /\ ~live => /\ app'.reply.kind # "hit"
                            /\ app'.cache[s] = NoEntry ]_vars

\* C22 witness: a request was answered from the cache in the last minute of
\* the entry's life.
C22_Witness ==
    /\ app.reply.kind = "hit"
    /\ app.reply.data.cached
    /\ app.clock >= 1
    /\ app.cache[app.reply.stop] # NoEntry
    /\ app.cache[app.reply.stop].expires_at = app.clock + 1

\* C23: no two requests for one stop are scraping at a time: of two requests
\* that miss the cache together only one scrapes and fills the entry.
C23_OneScrapePerStop ==
    \A p, q \in Requests :
       (p # q /\ app.req[p].pc # "idle" /\ app.req[q].pc # "idle")
       => app.req[p].stop # app.req[q].stop

\* C24: the payload the cache holds is never flagged as cached, whatever
\* gets, sets and clears came before, and a get changes no entry: it leaves
\* each as it is or, when expired, removes it.
C24_HitReturnsCopy ==
    [][ /\ \A k \in Stops :
             app'.cache[k] # NoEntry => ~app'.cache[k].data.cached
        /\ \A p \in Requests : \A s \in Stops :
             Gets(p, s) => \A k \in Stops :
                              app'.cache[k] # NoEntry => app'.cache[k] = app.cache[k] ]_vars

\* C24 witness: a request was handed a payload flagged as cached while the
\* entry it was copied from is not flagged.
C24_Witness ==
    /\ app.reply.kind = "hit"
    /\ app.reply.data.cached
    /\ app.reply.data.error = NO_DATA
    /\ app.cache[app.reply.stop] # NoEntry
    /\ ~app.cache[app.reply.stop].data.cached
    /\ app.cache[app.reply.stop].data.error = NO_DATA

\* C25: once a result with an error is stored for a stop, every request for
\* that stop before the end of its time to live is answered from the cache
\* with that error (and so scrapes nothing).
C25_ErrorsCached ==
    [][ \A p \in Requests : \A s \in Stops :
          Gets(p, s) =>
            LET n == app.negative[s]
            IN  (n # NoEntry /\ app.clock < n.expires_at)
                => /\ app'.reply.kind = "hit"
                   /\ app'.reply.data.error = n.data.error ]_vars

\* C26: after every step at most one browser session is connected and at
\* most one request is launching one, and the session get_browser returns to
\* a request is connected.
C26_OneSession ==
    [][ /\ Cardinality(app'.connected) <= 1
        /\ Cardinality({ p \in Requests : app'.req[p].pc = "launch" }) <= 1
        /\ \A p \in Requests :
             (app'.req[p].pc = "new_page" /\ app.req[p].pc # "new_page")
             => app'.req[p].browser \in app'.connected ]_vars

\* C26 witness: the first session has lost its connection and a request works
\* on a page of the second, the only one connected.
C26_Witness ==
    /\ app.launched = 2
    /\ app.connected = {2}
    /\ app.browser = 2
    /\ \E p \in Requests : app.req[p].pc = "page" /\ app.req[p].browser = 2

\* C27: scrape_lothian_stop never raises: no request ends with an exception.
C27_NeverRaises == app.reply.kind # "raised"

\* C28: a page is open only while the scrape that opened it is inside its
\* try block or closing it: a scrape that has returned, on whatever path, has
\* left no page open.
C28_PagesClosed ==
    \A p \in Requests : p \in app.pages => app.req[p].pc \in {"page", "closing"}

\* C28 witness: a scrape that ran into a timeout has returned and no page is
\* open.
C28_Witness ==
    /\ app.reply.kind = "fresh"
    /\ app.reply.data.error = TIMEOUT
    /\ app.pages = {}

\* C29: a scrape result without departures carries a non-empty error, as it
\* is returned and as it is stored.
C29_EmptyHasError ==
    /\ (app.reply.kind \in {"fresh", "hit"} /\ app.reply.data.departures = <<>>)
       => Truthy(app.reply.data.error)
    /\ \A s \in Stops :
         (app.cache[s] # NoEntry /\ app.cache[s].data.departures = <<>>)
         => Truthy(app.cache[s].data.error)

\* C29 witness: a scrape that read a page without rows has returned no
\* departures and the error that says so.
C29_Witness ==
    /\ app.reply.kind = "fresh"
    /\ app.reply.data.departures = <<>>
    /\ app.reply.data.error = NO_DATA

\* The events an option's keywords are found in, read off the texts.
OfficeEvents ==
    [ text \in OfficeKeywordTexts |->
        CASE text = "Office,Edinburgh" ->
               { "Office day", "WFH - Office catchup", "Edinburgh trip" }
          [] text = " office , " -> { "Office day", "WFH - Office catchup" }
          [] text = "" -> {} ]

WfhEvents ==
    [ text \in WfhKeywordTexts |->
        CASE text = "WFH,Home,Remote" -> { "WFH - Office catchup", "Working from home" }
          [] text = "wfh" -> { "WFH - Office catchup" }
          [] text = "" -> {} ]

EventOf(state) == IF state.message.kind = "text" THEN state.message.text ELSE ""

\* C31: the commute-day evaluation is true with no calendar entity, false when
\* the calendar state is missing or not "on", and otherwise true exactly when
\* some office keyword and no work-from-home keyword is found in the event
\* text, whatever the case of the letters.
C31_CommuteDay ==
    normalizer.call = "commute_day" =>
        normalizer.result =
            ( IF normalizer.entity = "" THEN TRUE
              ELSE IF normalizer.state = NoState \/ normalizer.state.state # "on" THEN FALSE
              ELSE /\ EventOf(normalizer.state) \in OfficeEvents[normalizer.office]
                   /\ EventOf(normalizer.state) \notin WfhEvents[normalizer.wfh] )

\* "WFH - Office catchup" under the default keywords is no commute day.
C31_Witness ==
    /\ normalizer.call = "commute_day"
    /\ normalizer.entity = "calendar.work"
    /\ normalizer.state = State("on", Text("WFH - Office catchup"))
    /\ normalizer.office = "Office,Edinburgh"
    /\ normalizer.wfh = "WFH,Home,Remote"
    /\ normalizer.result = FALSE

\* The minutes a state text of the sensor reads as, read off the texts.
Reading ==
    [ text \in { "58", "30", "0", "-5", " 58 " } |->
        CASE text = "58" -> 58 [] text = "30" -> 30 [] text = "0" -> 0
          [] text = "-5" -> 0 - 5 [] text = " 58 " -> 58 ]

\* C32: the traffic delay is max(0, observed - baseline) when the sensor gives
\* a reading and 0 when it gives none (no entity, no state, unknown,
\* unavailable, no number); it is never negative.
C32_TrafficDelay ==
    normalizer.call = "traffic" =>
        LET present == /\ normalizer.entity # ""
                       /\ normalizer.state # NoState
                       /\ normalizer.state.state \in DOMAIN Reading
        IN  /\ normalizer.result >= 0
            /\ normalizer.result =
                 ( IF present
                   THEN Max(0, Reading[normalizer.state.state] - normalizer.baseline)
                   ELSE 0 )

\* A reading under the baseline gives no delay.
C32_Witness ==
    /\ normalizer.call = "traffic"
    /\ normalizer.entity = "sensor.waze"
    /\ normalizer.state = State("30", Missing)
    /\ normalizer.baseline = 45
    /\ normalizer.waze_minutes = Number(30)
    /\ normalizer.result = 0

\* The rows that name a route, read off the texts of the route cell.
NamedRows(rows) == { i \in 1..Len(rows) : rows[i].route = Text("12") }

\* C37: a scrape returns at most 10 departures, each with a route that is not
\* empty: one for every row that names a route among the first 10 rows, in
\* the order of the rows, and none for the rows after them.
C37_AtMostTenNamed ==
    normalizer.call = "board" =>
        LET rows == normalizer.input
            result == normalizer.result
            named == { i \in NamedRows(rows) : i <= 10 }
        IN  /\ Len(result) <= 10
            /\ \A i \in 1..Len(result) : result[i].route # ""
            /\ Len(result) = Cardinality(named)
            /\ \A i \in named :
                 result[Cardinality({ j \in named : j <= i })].aimed =
                     ( IF rows[i].time = Text(" ") THEN Null ELSE rows[i].time )

\* A board of 12 rows whose second row names no route: the 9 other rows of
\* the first 10 are returned.
C37_Witness ==
    /\ normalizer.call = "board"
    /\ Len(normalizer.input) = 12
    /\ NamedRows(normalizer.input) = (1..12) \ {2}
    /\ Len(normalizer.result) = 9
    /\ normalizer.result[2].aimed = normalizer.input[3].time

\* C40: once the cache has been cleared, no request is answered from the
\* cache with data whose scrape began before the clear.
C40_NoStaleHitAfterClear ==
    app # NotRunning =>
        (app.reply.kind = "hit" => app.reply.stop \notin app.stale)

\* C38: auto_calls_today never exceeds calls_today, for any interleaving of
\* automatic refreshes, manual refreshes, date rollovers and reset_counters
\* calls, a reset between the two increments of one automatic cycle included.
C38_AutoWithinCalls == auto_calls_today <= calls_today

\* A primary request of caller p is answered 200 in this step: the caller
\* leaves the block of the request with the answer.
Confirmed(p) ==
    \/ pc[p] = "primary" /\ pc'[p] = "primary_exit"
    \/ pc[p] = "m_primary" /\ pc'[p] = "m_primary_exit"

\* C34: the counters are raised only once a primary call is confirmed, never
\* ahead of it: calls_today by one in the step a request is answered 200,
\* auto_calls_today by one when the automatic cycle that got such an answer
\* goes on with it.  A step of a cycle that is denied admission, or whose
\* primary request fails, returns another status or is left by an exception
\* before the answer, raises neither.
C34_CountedOnceConfirmed ==
    [][ /\ calls_today' > calls_today
           => /\ calls_today' = calls_today + 1
              /\ auto_calls_today' = auto_calls_today
              /\ \E p \in Procs : Confirmed(p)
        /\ auto_calls_today' > auto_calls_today
           => /\ auto_calls_today' = auto_calls_today + 1
              /\ calls_today' = calls_today
              /\ \E p \in Procs : /\ pc[p] = "primary_exit"
                                  /\ pc'[p] # pc[p]
                                  /\ source[p] = SOURCE_TRANSPORTAPI
        /\ \A p \in Procs :
             ( /\ pc'[p] # pc[p]
               /\ pc[p] \in {"idle", "primary", "m_primary", "scraper", "m_scraper"}
               /\ ~Confirmed(p) )
             => /\ calls_today' <= calls_today
                /\ auto_calls_today' <= auto_calls_today ]_vars

\* C34 witness: an automatic cycle and a manual refresh wait for the scraper,
\* neither with a confirmed answer of the primary API (the manual refresh was
\* denied admission); the one call confirmed today is still the only one
\* counted.
C34_Witness ==
    /\ pc["timer"] = "scraper"
    /\ pc["manual"] = "m_scraper"
    /\ source["timer"] = SOURCE_NONE
    /\ last_reset_date = today
    /\ calls_today = config.daily_quota
    /\ calls_today = 1
    /\ auto_calls_today = 0
    /\ config.max_auto_calls = MaxAuto
    /\ config.reserved_for_manual = MaxReserved

\* C33: a failure to deliver the notification never fails the fetch cycle.
\* When the call of the notify service ends, raised or not,
\* async_send_notification returns and the manual refresh is over, the
\* snapshot and the counters being as the refresh left them; with no service
\* name, or one without a dot, no call is made and it returns as well.
C33_NotificationNeverFails ==
    [][ LET m == "manual"
        IN  /\ (pc[m] = "notify" /\ pc'[m] # "notify")
               => /\ pc'[m] = "idle"
                  /\ observed'.press.ended = "returned"
                  /\ UNCHANGED <<data, calls_today, auto_calls_today, last_reset_date>>
            /\ (pc[m] \in {"primary", "scraper"} /\ pc'[m] \notin {"primary", "scraper"})
               => IF config.notify_service \in {"notify.mobile", "notify."}
                  THEN pc'[m] = "notify"
                  ELSE /\ pc'[m] = "idle"
                       /\ observed'.press.ended = "returned"
                       /\ observed'.press.notify = "none" ]_vars

\* C33 witness: the call of the notify service raised, the manual refresh is
\* over and the snapshot and the count of its refresh are in place.
C33_Witness ==
    /\ pc["manual"] = "idle"
    /\ observed.press.notify = "raised"
    /\ observed.press.ended = "returned"
    /\ observed.press.counted = 1
    /\ data.source = SOURCE_TRANSPORTAPI
    /\ data.departures # <<>>
    /\ calls_today = 1

\* C35: no two fetch cycles of one coordinator are in flight at once: while
\* one caller waits for an answer no other caller has entered its admission
\* check and its requests.
C35_OneCycleInFlight ==
    Cardinality({ p \in Procs : pc[p] \in UpdatePcs \cup ManualPcs }) <= 1

\* C39: one manual refresh sends at most one request to the primary API and
\* counts at most one call.
C39_OneRequestPerPress ==
    /\ observed.press.requests <= 1
    /\ observed.press.counted <= 1

\* A fetch cycle of caller p is under way; a request r of the service is.
CycleUnderWay(p) == app = NotRunning /\ pc[p] # "idle"

RequestUnderWay(r) == app # NotRunning /\ app.req[r].pc # "idle"

\* C36: under fair scheduling every fetch cycle of the coordinator that has
\* begun and every request of the scraper service that has begun comes to its
\* end, with data or with a failure.
C36_EveryCycleCompletes ==
    /\ \A p \in Procs : CycleUnderWay(p) ~> ~CycleUnderWay(p)
    /\ \A r \in Requests : RequestUnderWay(r) ~> ~RequestUnderWay(r)

\* C36 witness: a request that had to wait for the page has been answered
\* with the timeout of its scrape, while the other one is still under way.
C36_Witness ==
    /\ app # NotRunning
    /\ app.reply.kind = "fresh"
    /\ app.reply.to = "r1"
    /\ app.reply.data.error = TIMEOUT
    /\ app.req["r1"].pc = "idle"
    /\ app.req["r2"].pc = "lock"

====
